---- MODULE Spec2Model ----
(***************************************************************************)
(* Model of the documentation-harvesting pipeline of react/scripts:        *)
(*   01-extract-links.js   link discovery (phase 1)                        *)
(*   02-download-html.js   classification, naming, batched fetch (phase 2) *)
(*   03-convert-markdown.js conversion with mtime-based skipping (phase 3) *)
(*   run-all-phases.js     the orchestrator                                *)
(*                                                                         *)
(* A JavaScript string is a sequence of one-character strings, so that     *)
(* startsWith, includes, split, the regular expressions of cleanTitle and  *)
(* localeCompare are computed on characters.                               *)
(***************************************************************************)
EXTENDS Integers, Sequences, FiniteSets, TLC

VARIABLES
    \* classification (02-download-html.js, pure functions)
    cpc, cCfg, cLinks, cCatalog, cNames, cOther, cOtherNames,
    \* the fetch phase (02-download-html.js, HTMLDownloader)
    fpc,              \* where downloadAllPages stands
    run,              \* which run of the phase this is
    fLinks,           \* the links read from the catalog file
    thisOrganizedLinks, \* this.organizedLinks
    site,             \* what every URL serves
    siteChanged,      \* the site changed since the first run
    htmlStore,        \* the files of htmlDir: filename -> content
    storeAtRunStart,  \* htmlStore as the current run found it
    tasks,            \* the downloadSinglePage calls of the run, by link index
    batch,            \* the batch number of the loop
    allResults,       \* allResults of downloadAllPages
    delays,           \* the delays between batches waited so far
    \* the convert phase (03-convert-markdown.js, MarkdownConverter)
    vpc,              \* where convertAllPages stands
    vrun,             \* which run of the phase this is
    vLinks,           \* the links read from the catalog file
    vOrganizedLinks,  \* this.organizedLinks
    rawStore,         \* the files of htmlDir: base filename -> [mtime, article]
    rawChanged,       \* a raw document changed since the first run
    docStore,         \* the Documents of markdownDir: base filename -> [mtime, writes, readable]
    docAtRunStart,    \* docStore as the current run found it
    idxWrites,        \* how often INDEX.md and the index of contents were written
    htmlFiles,        \* htmlFiles of convertAllPages (what readdir returned)
    vTasks,           \* the convertSingleFile calls of the run, by file index
    vBatch,           \* the batch number of the loop
    vResults,         \* allResults of convertAllPages
    clock,            \* the time of the file system
    \* the orchestrator (run-all-phases.js) and the processes it spawns
    env,              \* what the run meets: spawn, browser, root page, anchors
    opc,              \* where main of run-all-phases.js stands
    oPhase,           \* the index of the phase of the for loop
    oStarted,         \* the phases runScript has spawned, in order
    oExit,            \* the exit status of the orchestrator
    oLog,             \* the messages the orchestrator logged
    children,         \* the spawned child of every phase: [state, code]
    files,            \* the working directory: path -> [writes, content]
    filesAtClose,     \* files as they were when the last child closed
    \* one phase script as a process (main of 01-, 02-, 03-)
    sScript,          \* which script runs (0: none)
    sArgv,            \* process.argv.slice(2)
    sCwd,             \* process.cwd(), as path segments below the project root
    spc,              \* where the script stands
    sMode,            \* the mode parseArguments returned
    sExit,            \* the exit status of the script
    browser,          \* the puppeteer browser of the script
    parsedLinks,      \* parsedLinks of scrapeReactDocumentation
    invocations,      \* how many scripts the shell has started
    \* the index of contents of one Document (03-convert-markdown.js)
    hpc,              \* where generateIndexOfContents stands for the page
    hDoc,             \* the lines of the Document (content.split of the file read)
    hToc,             \* the headers listed for the page: [level, text]
    \* the two indices of a run of the convert phase (03-convert-markdown.js)
    ipc,              \* where convertAllPages stands after its loop
    iPages,           \* allResults: the records of the processed pages
    iDocs,            \* the Documents of markdownDir: filename -> [title, excerpt, lines]
    iIndex,           \* INDEX.md: the categories, each with its entries
    iContents,        \* the index of contents: [sections, totalPages, totalHeaders]
    iPure,            \* what 04-generate-index-headers-only.js scanned and reported
    \* one reference through the fetch and the convert phase, round after round
    kpc,              \* the phase that runs next in the round
    kRound,           \* which round of the two phases this is
    kCwd,             \* the working directory each script is started in
    kPage,            \* what the URL of the reference serves
    kChanged,         \* the page changed since the fetch phase ran last
    kFiles,           \* the directories: path -> (filename -> file)
    kClock,           \* the clock of the file system
    kFetched,         \* how the fetch phase of the round ended
    kConverted        \* how the convert phase of the round ended

classVars == <<cpc, cCfg, cLinks, cCatalog, cNames, cOther, cOtherNames>>

fetchVars ==
    <<fpc, run, fLinks, thisOrganizedLinks, site, siteChanged, htmlStore, storeAtRunStart,
      tasks, batch, allResults, delays>>

convVars ==
    <<vpc, vrun, vLinks, vOrganizedLinks, rawStore, rawChanged, docStore, docAtRunStart,
      idxWrites, htmlFiles, vTasks, vBatch, vResults, clock>>

orchVars == <<opc, oPhase, oStarted, oExit, oLog>>

scriptVars == <<sScript, sArgv, sCwd, spc, sMode, sExit, browser, parsedLinks, invocations>>

pipeVars == <<env, orchVars, children, files, filesAtClose, scriptVars>>

headVars == <<hpc, hDoc, hToc>>

indexVars == <<ipc, iPages, iDocs, iIndex, iContents, iPure>>

cacheVars == <<kpc, kRound, kCwd, kPage, kChanged, kFiles, kClock, kFetched, kConverted>>

vars == <<classVars, fetchVars, convVars, pipeVars, headVars, indexVars, cacheVars>>

nonClassVars == <<fetchVars, convVars, pipeVars, headVars, indexVars, cacheVars>>
nonFetchVars == <<classVars, convVars, pipeVars, headVars, indexVars, cacheVars>>
nonConvVars == <<classVars, fetchVars, pipeVars, headVars, indexVars, cacheVars>>
nonPipeVars == <<classVars, fetchVars, convVars, headVars, indexVars, cacheVars>>
nonHeadVars == <<classVars, fetchVars, convVars, pipeVars, indexVars, cacheVars>>
nonIndexVars == <<classVars, fetchVars, convVars, pipeVars, headVars, cacheVars>>
nonCacheVars == <<classVars, fetchVars, convVars, pipeVars, headVars, indexVars>>

\* organizeLinks is not being exercised.
ClassIdle ==
    /\ cpc = "off" /\ cCfg = <<>> /\ cLinks = <<>> /\ cCatalog = <<>>
    /\ cNames = <<>> /\ cOther = <<>> /\ cOtherNames = <<>>

\* The fetch phase is not part of the run.
FetchIdle ==
    /\ fpc = "off" /\ run = 0 /\ fLinks = <<>> /\ thisOrganizedLinks = <<>> /\ site = <<>>
    /\ siteChanged = FALSE /\ htmlStore = <<>> /\ storeAtRunStart = <<>> /\ tasks = <<>>
    /\ batch = 0 /\ allResults = <<>> /\ delays = 0

\* The convert phase is not part of the run.
ConvIdle ==
    /\ vpc = "off" /\ vrun = 0 /\ vLinks = <<>> /\ vOrganizedLinks = <<>> /\ rawStore = <<>>
    /\ rawChanged = FALSE /\ docStore = <<>> /\ docAtRunStart = <<>> /\ idxWrites = 0
    /\ htmlFiles = <<>> /\ vTasks = <<>> /\ vBatch = 0 /\ vResults = <<>> /\ clock = 0

\* Neither the orchestrator nor a phase script is part of the run.
PipeIdle ==
    /\ env = <<>> /\ opc = "off" /\ oPhase = 0 /\ oStarted = <<>> /\ oExit = -1 /\ oLog = <<>>
    /\ children = <<>> /\ files = <<>> /\ filesAtClose = <<>>
    /\ sScript = 0 /\ sArgv = <<>> /\ sCwd = <<>> /\ spc = "none" /\ sMode = "none" /\ sExit = -1
    /\ browser = "none" /\ parsedLinks = <<>> /\ invocations = 0

\* No index of contents is being generated.
HeadIdle == hpc = "off" /\ hDoc = <<>> /\ hToc = <<>>

\* No index is being written.
IndexIdle ==
    /\ ipc = "off" /\ iPages = <<>> /\ iDocs = <<>> /\ iIndex = <<>> /\ iContents = <<>>
    /\ iPure = <<>>

\* No reference is followed through the two caches.
CacheIdle ==
    /\ kpc = "off" /\ kRound = 0 /\ kCwd = <<>> /\ kPage = <<>> /\ kChanged = FALSE
    /\ kFiles = <<>> /\ kClock = 0 /\ kFetched = <<>> /\ kConverted = <<>>

(***************************************************************************)
(* Strings                                                                 *)
(***************************************************************************)

\* The printable ASCII characters in code order: Ascii[i] has char code 31 + i
\* (the grave accent, code 96, is written out: it cannot stand in a string here).
Ascii ==
    <<" ", "!", "\"", "#", "$", "%", "&", "'", "(", ")", "*", "+", ",", "-", ".", "/",
      "0", "1", "2", "3", "4", "5", "6", "7", "8", "9",
      ":", ";", "<", "=", ">", "?", "@",
      "A", "B", "C", "D", "E", "F", "G", "H", "I", "J", "K", "L", "M",
      "N", "O", "P", "Q", "R", "S", "T", "U", "V", "W", "X", "Y", "Z",
      "[", "\\", "]", "^", "_", "(backtick)",
      "a", "b", "c", "d", "e", "f", "g", "h", "i", "j", "k", "l", "m",
      "n", "o", "p", "q", "r", "s", "t", "u", "v", "w", "x", "y", "z",
      "{", "|", "}", "~">>

Chars == {Ascii[i] : i \in 1..Len(Ascii)}

CodeTable == [c \in Chars |-> 31 + (CHOOSE i \in 1..Len(Ascii) : Ascii[i] = c)]

\* String.prototype.charCodeAt for one character.
charCode(c) == CodeTable[c]

IsUpper(c) == charCode(c) \in 65..90
IsLetter(c) == charCode(c) \in (65..90) \cup (97..122)
IsDigit(c) == charCode(c) \in 48..57
\* \s of a JavaScript regular expression, among the printable characters.
IsSpace(c) == c = " "

LowerTable == [c \in Chars |-> IF IsUpper(c) THEN Ascii[charCode(c) + 32 - 31] ELSE c]

lowerChar(c) == LowerTable[c]

\* String.prototype.toLowerCase
toLowerCase(s) == [i \in 1..Len(s) |-> lowerChar(s[i])]

\* String.prototype.startsWith
startsWith(s, p) == Len(p) <= Len(s) /\ SubSeq(s, 1, Len(p)) = p

\* String.prototype.includes
includes(s, k) ==
    \E i \in 1..(Len(s) - Len(k) + 1) : SubSeq(s, i, i + Len(k) - 1) = k

\* s.replace(/[^a-zA-Z0-9\s-]/g, '')
RECURSIVE stripNonTitleChars(_)
stripNonTitleChars(s) ==
    IF s = <<>> THEN <<>>
    ELSE LET c == Head(s)
         IN  (IF IsLetter(c) \/ IsDigit(c) \/ IsSpace(c) \/ c = "-" THEN <<c>> ELSE <<>>)
             \o stripNonTitleChars(Tail(s))

\* s.replace(/\s+/g, '-'): every maximal run of whitespace becomes one hyphen.
RECURSIVE spacesToHyphen(_)
spacesToHyphen(s) ==
    IF s = <<>> THEN <<>>
    ELSE IF IsSpace(Head(s))
         THEN IF Len(s) > 1 /\ IsSpace(s[2])
              THEN spacesToHyphen(Tail(s))
              ELSE <<"-">> \o spacesToHyphen(Tail(s))
         ELSE <<Head(s)>> \o spacesToHyphen(Tail(s))

\* s.replace(/-+/g, '-'): every maximal run of hyphens becomes one hyphen.
RECURSIVE collapseHyphens(_)
collapseHyphens(s) ==
    IF s = <<>> THEN <<>>
    ELSE IF Head(s) = "-" /\ Len(s) > 1 /\ s[2] = "-"
         THEN collapseHyphens(Tail(s))
         ELSE <<Head(s)>> \o collapseHyphens(Tail(s))

\* s.replace(/^-+|-+$/g, ''): leading and trailing hyphens are removed.
RECURSIVE trimHyphens(_)
trimHyphens(s) ==
    IF s # <<>> /\ Head(s) = "-" THEN trimHyphens(Tail(s))
    ELSE IF s # <<>> /\ s[Len(s)] = "-" THEN trimHyphens(SubSeq(s, 1, Len(s) - 1))
    ELSE s

\* href.split('/').filter(p => p), the non-empty segments between slashes.
RECURSIVE SplitSegs(_, _)
SplitSegs(s, cur) ==
    IF s = <<>> THEN (IF cur = <<>> THEN <<>> ELSE <<cur>>)
    ELSE IF Head(s) = "/"
         THEN (IF cur = <<>> THEN <<>> ELSE <<cur>>) \o SplitSegs(Tail(s), <<>>)
         ELSE SplitSegs(Tail(s), Append(cur, Head(s)))

pathParts(href) == SplitSegs(href, <<>>)

\* The collation order of the printable ASCII characters under the default
\* (root) locale: whitespace, punctuation, symbols, digits, letters. Case is a
\* lower-level difference: it decides only between strings equal otherwise.
CollationOrder ==
    <<" ", "_", "-", ",", ";", ":", "!", "?", ".", "'", "\"", "(", ")", "[", "]",
      "{", "}", "@", "*", "/", "\\", "&", "#", "%", "(backtick)", "^", "+", "<", "=", ">",
      "|", "~", "$",
      "0", "1", "2", "3", "4", "5", "6", "7", "8", "9",
      "a", "b", "c", "d", "e", "f", "g", "h", "i", "j", "k", "l", "m",
      "n", "o", "p", "q", "r", "s", "t", "u", "v", "w", "x", "y", "z">>

PrimaryTable ==
    [c \in Chars |-> CHOOSE i \in 1..Len(CollationOrder) : CollationOrder[i] = lowerChar(c)]

primaryWeight(c) == PrimaryTable[c]

caseWeight(c) == IF IsUpper(c) THEN 1 ELSE 0

\* Lexicographic comparison by primary weight, a proper prefix first: -1, 0, 1.
RECURSIVE comparePrimary(_, _)
comparePrimary(a, b) ==
    IF a = <<>> /\ b = <<>> THEN 0
    ELSE IF a = <<>> THEN -1
    ELSE IF b = <<>> THEN 1
    ELSE IF primaryWeight(Head(a)) < primaryWeight(Head(b)) THEN -1
    ELSE IF primaryWeight(Head(a)) > primaryWeight(Head(b)) THEN 1
    ELSE comparePrimary(Tail(a), Tail(b))

\* The same by case, lower case first.
RECURSIVE compareCase(_, _)
compareCase(a, b) ==
    IF a = <<>> /\ b = <<>> THEN 0
    ELSE IF a = <<>> THEN -1
    ELSE IF b = <<>> THEN 1
    ELSE IF caseWeight(Head(a)) < caseWeight(Head(b)) THEN -1
    ELSE IF caseWeight(Head(a)) > caseWeight(Head(b)) THEN 1
    ELSE compareCase(Tail(a), Tail(b))

\* String.prototype.localeCompare
localeCompare(a, b) ==
    LET p == comparePrimary(a, b)
    IN  IF p # 0 THEN p ELSE compareCase(a, b)

\* String(n).padStart(2, '0') for n >= 0
RECURSIVE Digits(_)
Digits(n) ==
    IF n < 10 THEN <<Ascii[17 + n]>> ELSE Digits(n \div 10) \o <<Ascii[17 + (n % 10)]>>

padStart2(n) == IF n < 10 THEN <<"0">> \o Digits(n) ELSE Digits(n)

(***************************************************************************)
(* Classification and naming (02-download-html.js; 03-convert-markdown.js  *)
(* holds the same functions)                                               *)
(***************************************************************************)

\* MODE_CONFIGS.reference with the mode added by main: an object literal is
\* the sequence of its entries in insertion order, as Object.entries lists them.
ReferenceConfig ==
    [mode |-> "reference",
     chapterMapping |-> <<
       [path |-> <<"/", "r", "e", "f", "e", "r", "e", "n", "c", "e", "/", "r", "e", "a", "c", "t">>, chapter |-> [number |-> 1, name |-> "React Core"]],
       [path |-> <<"/", "r", "e", "f", "e", "r", "e", "n", "c", "e", "/", "r", "e", "a", "c", "t", "-", "d", "o", "m">>, chapter |-> [number |-> 2, name |-> "React DOM"]],
       [path |-> <<"/", "r", "e", "f", "e", "r", "e", "n", "c", "e", "/", "r", "e", "a", "c", "t", "-", "c", "o", "m", "p", "i", "l", "e", "r">>, chapter |-> [number |-> 3, name |-> "React Compiler"]],
       [path |-> <<"/", "r", "e", "f", "e", "r", "e", "n", "c", "e", "/", "r", "s", "c">>, chapter |-> [number |-> 4, name |-> "React Server Components"]],
       [path |-> <<"/", "r", "e", "f", "e", "r", "e", "n", "c", "e", "/", "r", "u", "l", "e", "s">>, chapter |-> [number |-> 5, name |-> "Rules of React"]] >>,
     sectionPriority |-> <<
       [keyword |-> <<"o", "v", "e", "r", "v", "i", "e", "w">>, priority |-> 1],
       [keyword |-> <<"h", "o", "o", "k", "s">>, priority |-> 2],
       [keyword |-> <<"c", "o", "m", "p", "o", "n", "e", "n", "t", "s">>, priority |-> 3],
       [keyword |-> <<"a", "p", "i", "s">>, priority |-> 4],
       [keyword |-> <<"c", "l", "i", "e", "n", "t">>, priority |-> 5],
       [keyword |-> <<"s", "e", "r", "v", "e", "r">>, priority |-> 6] >>]

\* MODE_CONFIGS.learn with the mode added by main.
LearnConfig ==
    [mode |-> "learn",
     chapterMapping |-> <<
       [path |-> <<"/", "l", "e", "a", "r", "n">>, chapter |-> [number |-> 1, name |-> "Get Started"]],
       [path |-> <<"/", "l", "e", "a", "r", "n", "/", "t", "u", "t", "o", "r", "i", "a", "l", "-", "t", "i", "c", "-", "t", "a", "c", "-", "t", "o", "e">>, chapter |-> [number |-> 1, name |-> "Get Started"]],
       [path |-> <<"/", "l", "e", "a", "r", "n", "/", "t", "h", "i", "n", "k", "i", "n", "g", "-", "i", "n", "-", "r", "e", "a", "c", "t">>, chapter |-> [number |-> 1, name |-> "Get Started"]],
       [path |-> <<"/", "l", "e", "a", "r", "n", "/", "i", "n", "s", "t", "a", "l", "l", "a", "t", "i", "o", "n">>, chapter |-> [number |-> 1, name |-> "Get Started"]],
       [path |-> <<"/", "l", "e", "a", "r", "n", "/", "s", "e", "t", "u", "p">>, chapter |-> [number |-> 1, name |-> "Get Started"]],
       [path |-> <<"/", "l", "e", "a", "r", "n", "/", "r", "e", "a", "c", "t", "-", "c", "o", "m", "p", "i", "l", "e", "r">>, chapter |-> [number |-> 1, name |-> "Get Started"]],
       [path |-> <<"/", "l", "e", "a", "r", "n", "/", "d", "e", "s", "c", "r", "i", "b", "i", "n", "g", "-", "t", "h", "e", "-", "u", "i">>, chapter |-> [number |-> 2, name |-> "Learn React"]],
       [path |-> <<"/", "l", "e", "a", "r", "n", "/", "a", "d", "d", "i", "n", "g", "-", "i", "n", "t", "e", "r", "a", "c", "t", "i", "v", "i", "t", "y">>, chapter |-> [number |-> 2, name |-> "Learn React"]],
       [path |-> <<"/", "l", "e", "a", "r", "n", "/", "m", "a", "n", "a", "g", "i", "n", "g", "-", "s", "t", "a", "t", "e">>, chapter |-> [number |-> 2, name |-> "Learn React"]],
       [path |-> <<"/", "l", "e", "a", "r", "n", "/", "e", "s", "c", "a", "p", "e", "-", "h", "a", "t", "c", "h", "e", "s">>, chapter |-> [number |-> 2, name |-> "Learn React"]] >>,
     sectionPriority |-> <<
       [keyword |-> <<"q", "u", "i", "c", "k", "-", "s", "t", "a", "r", "t">>, priority |-> 1],
       [keyword |-> <<"t", "u", "t", "o", "r", "i", "a", "l">>, priority |-> 2],
       [keyword |-> <<"t", "h", "i", "n", "k", "i", "n", "g">>, priority |-> 3],
       [keyword |-> <<"i", "n", "s", "t", "a", "l", "l", "a", "t", "i", "o", "n">>, priority |-> 4],
       [keyword |-> <<"s", "e", "t", "u", "p">>, priority |-> 5],
       [keyword |-> <<"c", "o", "m", "p", "i", "l", "e", "r">>, priority |-> 6],
       [keyword |-> <<"d", "e", "s", "c", "r", "i", "b", "i", "n", "g">>, priority |-> 7],
       [keyword |-> <<"a", "d", "d", "i", "n", "g">>, priority |-> 8],
       [keyword |-> <<"m", "a", "n", "a", "g", "i", "n", "g">>, priority |-> 9],
       [keyword |-> <<"e", "s", "c", "a", "p", "e">>, priority |-> 10] >>]

\* JavaScript null, the result of getChapterInfo for a short reference path.
Null == [number |-> -1, name |-> "null"]

OtherChapter == [number |-> 99, name |-> "Other"]

\* config.chapterMapping[key]: the entry of that key, or Null (undefined).
mappingAt(mapping, key) ==
    IF \E i \in 1..Len(mapping) : mapping[i].path = key
    THEN mapping[CHOOSE i \in 1..Len(mapping) : mapping[i].path = key].chapter
    ELSE Null

getChapterInfo(href, config) ==
    IF config.mode = "reference"
    THEN LET parts == pathParts(href)
         IN  IF Len(parts) < 2 THEN Null
             ELSE LET chapterPath == <<"/">> \o parts[1] \o <<"/">> \o parts[2]
                      chapter == mappingAt(config.chapterMapping, chapterPath)
                  IN  IF chapter = Null THEN OtherChapter ELSE chapter
    ELSE LET m == config.chapterMapping
             exactMatch == mappingAt(m, href)
             hits == {i \in 1..Len(m) : startsWith(href, m[i].path)}
         IN  IF exactMatch # Null THEN exactMatch
             ELSE IF hits # {}
                  THEN m[CHOOSE i \in hits : \A j \in hits : i <= j].chapter
                  ELSE OtherChapter

\* A lookup in which the last matching keyword of the table wins.
getSectionPriorityLastMatch(text, href, config) ==
    LET lowerText == toLowerCase(text)
        lowerHref == toLowerCase(href)
        sp == config.sectionPriority
        hits == {i \in 1..Len(sp) :
                    includes(lowerText, sp[i].keyword) \/ includes(lowerHref, sp[i].keyword)}
    IN  IF hits # {}
        THEN sp[CHOOSE i \in hits : \A j \in hits : j <= i].priority
        ELSE 1000 + charCode(lowerText[1])

\* text is not empty here: the references of a catalog have a display text
\* (parseSidebarLinks keeps no anchor without one).
getSectionPriority(text, href, config) ==
    LET lowerText == toLowerCase(text)
        lowerHref == toLowerCase(href)
        sp == config.sectionPriority
        hits == {i \in 1..Len(sp) :
                    includes(lowerText, sp[i].keyword) \/ includes(lowerHref, sp[i].keyword)}
    IN  IF hits # {}
        THEN sp[CHOOSE i \in hits : \A j \in hits : i <= j].priority
        ELSE 1000 + charCode(lowerText[1])

cleanTitle(text) ==
    toLowerCase(trimHyphens(collapseHyphens(spacesToHyphen(stripNonTitleChars(text)))))

\* fullUrl as parseSidebarLinks derives it from href (01-extract-links.js).
fullUrlOf(href) ==
    IF startsWith(href, <<"/">>) THEN <<"h", "t", "t", "p", "s", ":", "/", "/", "r", "e", "a", "c", "t", ".", "d", "e", "v">> \o href ELSE href

mkLink(href, text) == [href |-> href, title |-> <<>>, text |-> text, fullUrl |-> fullUrlOf(href)]

\* References as discovery emits them for the two sections of the site.
LinkPool ==
    { mkLink(<<"/", "r", "e", "f", "e", "r", "e", "n", "c", "e", "/", "r", "e", "a", "c", "t", "/", "h", "o", "o", "k", "s">>, <<"H", "o", "o", "k", "s">>),
      mkLink(<<"/", "r", "e", "f", "e", "r", "e", "n", "c", "e", "/", "r", "e", "a", "c", "t", "/", "u", "s", "e">>, <<"u", "s", "e">>),
      mkLink(<<"/", "r", "e", "f", "e", "r", "e", "n", "c", "e", "/", "r", "e", "a", "c", "t", "/", "l", "e", "g", "a", "c", "y", "/", "u", "s", "e">>, <<"u", "s", "e">>),
      mkLink(<<"/", "r", "e", "f", "e", "r", "e", "n", "c", "e", "/", "r", "e", "a", "c", "t", "-", "d", "o", "m", "/", "c", "o", "m", "p", "o", "n", "e", "n", "t", "s">>, <<"C", "o", "m", "p", "o", "n", "e", "n", "t", "s">>),
      mkLink(<<"/", "l", "e", "a", "r", "n", "/", "d", "e", "s", "c", "r", "i", "b", "i", "n", "g", "-", "t", "h", "e", "-", "u", "i">>, <<"D", "e", "s", "c", "r", "i", "b", "i", "n", "g", " ", "t", "h", "e", " ", "U", "I">>),
      mkLink(<<"/", "l", "e", "a", "r", "n", "/", "y", "o", "u", "r", "-", "f", "i", "r", "s", "t", "-", "c", "o", "m", "p", "o", "n", "e", "n", "t">>, <<"Y", "o", "u", "r", " ", "F", "i", "r", "s", "t", " ", "C", "o", "m", "p", "o", "n", "e", "n", "t">>),
      mkLink(<<"/", "r", "e", "f", "e", "r", "e", "n", "c", "e">>, <<"O", "v", "e", "r", "v", "i", "e", "w", "!">>) }

Configs == {ReferenceConfig, LearnConfig}

\* References outside the two catalogued sections: in reference mode their
\* chapter is null and their filename is cleanTitle(text) alone.
FetchOnlyLinks ==
    { mkLink(<<"/", "l", "e", "a", "r", "n">>, <<"O", "v", "e", "r", "v", "i", "e", "w">>) }

\* A configuration with the tables {'/a': {number: 1, name: 'A'}} and
\* {intro: 1}, in either mode.
ExampleConfig(mode) ==
    [mode |-> mode,
     chapterMapping |-> << [path |-> <<"/", "a">>, chapter |-> [number |-> 1, name |-> "A"]] >>,
     sectionPriority |-> << [keyword |-> <<"i", "n", "t", "r", "o">>, priority |-> 1] >>]

ExampleConfigs == {ExampleConfig("reference"), ExampleConfig("learn")}

KnownConfigs == Configs \cup ExampleConfigs

\* Further references a sidebar can list: below a one-segment path, with two
\* keywords in the display text, and below a page of the second learn chapter.
NamingLinks ==
    { mkLink(<<"/", "a", "/", "i", "n", "t", "r", "o">>, <<"I", "n", "t", "r", "o">>),
      mkLink(<<"/", "a", "/", "z", "e", "t", "a">>, <<"Z", "e", "t", "a">>),
      mkLink(<<"/", "r", "e", "f", "e", "r", "e", "n", "c", "e", "/", "r", "e", "a", "c", "t", "-", "d", "o", "m", "/", "s", "e", "r", "v", "e", "r">>, <<"S", "e", "r", "v", "e", "r", " ", "A", "P", "I", "s">>),
      mkLink(<<"/", "l", "e", "a", "r", "n", "/", "m", "a", "n", "a", "g", "i", "n", "g", "-", "s", "t", "a", "t", "e", "/", "r", "e", "d", "u", "c", "e", "r", "s">>, <<"R", "e", "d", "u", "c", "e", "r", "s">>) }

KnownLinks == LinkPool \cup FetchOnlyLinks \cup NamingLinks

\* The references whose classification is looked up: those of the pools and
\* of the catalogs of the fetch phase.
MemoLinks ==
    KnownLinks \cup { mkLink(<<"/", "r", "e", "f", "e", "r", "e", "n", "c", "e", "/", "r", "e", "a", "c", "t", "/", "l", "e", "g", "a", "c", "y", "/", "u", "s", "e">>, <<"u", "s", "e">>),
                      mkLink(<<"/", "r", "e", "f", "e", "r", "e", "n", "c", "e">>, <<"O", "v", "e", "r", "v", "i", "e", "w", "!">>) }

\* getChapterInfo, getSectionPriority and cleanTitle are functions of their
\* arguments alone: their values on the references of the pool are computed
\* once and looked up afterwards.
ChapterMemo ==
    [c \in KnownConfigs |-> [h \in {l.href : l \in MemoLinks} |-> getChapterInfo(h, c)]]

chapterInfoOf(href, config) ==
    IF config \in KnownConfigs /\ href \in {l.href : l \in MemoLinks}
    THEN ChapterMemo[config][href]
    ELSE getChapterInfo(href, config)

PriorityMemo ==
    [c \in KnownConfigs |-> [l \in MemoLinks |-> getSectionPriority(l.text, l.href, c)]]

priorityOf(link, config) ==
    IF config \in KnownConfigs /\ link \in MemoLinks
    THEN PriorityMemo[config][link]
    ELSE getSectionPriority(link.text, link.href, config)

TitleMemo == [t \in {l.text : l \in MemoLinks} |-> cleanTitle(t)]

cleanTitleOf(text) ==
    IF text \in {l.text : l \in MemoLinks} THEN TitleMemo[text] ELSE cleanTitle(text)

\* A comparator that looks at the display texts alone.
compareSectionsByText(a, b) == localeCompare(a.text, b.text)

\* The comparator given to sections.sort.
compareSections(a, b) ==
    IF a.priority # b.priority THEN a.priority - b.priority
    ELSE localeCompare(a.text, b.text)

\* Array.prototype.sort is stable: x goes after every section that does not
\* compare greater than it.
RECURSIVE insertSection(_, _)
insertSection(sorted, x) ==
    IF sorted = <<>> THEN <<x>>
    ELSE IF compareSections(Head(sorted), x) > 0 THEN <<x>> \o sorted
    ELSE <<Head(sorted)>> \o insertSection(Tail(sorted), x)

\* A sort that leaves the sections in listing order.
sortSectionsListingOrder(s) == s

RECURSIVE sortSections(_)
sortSections(s) ==
    IF s = <<>> THEN <<>>
    ELSE insertSection(sortSections(SubSeq(s, 1, Len(s) - 1)), s[Len(s)])

\* The sections pushed for chapter num, in listing order, each link with its
\* priority; infos[i] is the chapter of links[i].
RECURSIVE sectionsOf(_, _, _, _, _)
sectionsOf(links, infos, i, num, config) ==
    IF i > Len(links) THEN <<>>
    ELSE (IF infos[i].number = num
          THEN <<[href |-> links[i].href, title |-> links[i].title, text |-> links[i].text,
                  fullUrl |-> links[i].fullUrl,
                  priority |-> priorityOf(links[i], config)]>>
          ELSE <<>>)
         \o sectionsOf(links, infos, i + 1, num, config)

\* The chapters object: chapter number -> {info, sections}; a link whose chapter
\* is null is left out, info is the chapter of the first link of that number.
organizeLinks(links, config) ==
    LET infos == [i \in 1..Len(links) |-> chapterInfoOf(links[i].href, config)]
        nums == {infos[i].number : i \in 1..Len(links)} \ {Null.number}
        first(n) == CHOOSE i \in 1..Len(links) :
                       infos[i].number = n /\ \A j \in 1..(i - 1) : infos[j].number # n
    IN  [n \in nums |->
            [info |-> infos[first(n)],
             sections |-> sortSections(sectionsOf(links, infos, 1, n, config))]]

\* sections.findIndex(section => section.href === href), from 0; -1 if none.
findIndex(sections, href) ==
    IF \E i \in 1..Len(sections) : sections[i].href = href
    THEN (CHOOSE i \in 1..Len(sections) :
             /\ sections[i].href = href
             /\ \A j \in 1..(i - 1) : sections[j].href # href) - 1
    ELSE -1

generateChapterSectionFilename(link, organizedLinks, config) ==
    LET chapterInfo == chapterInfoOf(link.href, config)
    IN  IF chapterInfo = Null THEN cleanTitleOf(link.text)
        ELSE IF chapterInfo.number \notin DOMAIN organizedLinks THEN cleanTitleOf(link.text)
        ELSE LET sectionIndex == findIndex(organizedLinks[chapterInfo.number].sections, link.href)
             IN  IF sectionIndex = -1 THEN cleanTitleOf(link.text)
                 ELSE padStart2(chapterInfo.number) \o <<"-">> \o padStart2(sectionIndex + 1)
                      \o <<"-">> \o cleanTitleOf(link.text)

(***************************************************************************)
(* Classification of a catalog, and of the same references listed in       *)
(* another order                                                           *)
(***************************************************************************)

MaxLinks == 3

Catalogs == UNION {[1..n -> LinkPool] : n \in 1..MaxLinks}

Range(s) == {s[i] : i \in 1..Len(s)}

\* The bijections of 1..n.
Orderings(n) == {p \in [1..n -> 1..n] : \A i, j \in 1..n : p[i] = p[j] => i = j}

\* The filename of every reference of a listing, as downloadSinglePage and
\* convertSingleFile derive it from the organized links.
filenamesOf(links, config) ==
    LET organizedLinks == organizeLinks(links, config)
    IN  [l \in Range(links) |-> generateChapterSectionFilename(l, organizedLinks, config)]

ClassInit ==
    /\ cpc = "loaded"
    /\ cCfg \in Configs
    /\ cLinks \in Catalogs
    /\ cCatalog = <<>>
    /\ cNames = <<>>
    /\ cOther = <<>>
    /\ cOtherNames = <<>>
    /\ FetchIdle /\ ConvIdle /\ PipeIdle /\ HeadIdle /\ IndexIdle /\ CacheIdle

\* loadLinksFromLatestFile: the links are organized; each gets its filename.
Classify ==
    /\ cpc = "loaded"
    /\ cCatalog' = organizeLinks(cLinks, cCfg)
    /\ cNames' = filenamesOf(cLinks, cCfg)
    /\ cpc' = "named"
    /\ UNCHANGED <<cCfg, cLinks, cOther, cOtherNames>>
    /\ UNCHANGED nonClassVars

\* A second invocation on the same references listed in another order.
ClassifyRelisted ==
    /\ cpc = "named"
    /\ \E p \in Orderings(Len(cLinks)) :
          /\ cOther' = [i \in 1..Len(cLinks) |-> cLinks[p[i]]]
          /\ cOtherNames' = filenamesOf(cOther', cCfg)
    /\ cpc' = "renamed"
    /\ UNCHANGED <<cCfg, cLinks, cCatalog, cNames>>
    /\ UNCHANGED nonClassVars

ClassNext == Classify \/ ClassifyRelisted

SpecClassify == ClassInit /\ [][ClassNext]_vars


\* Two references of the listing with different hrefs fall in the same chapter
\* with the same priority and display texts that compare equal: the comparator
\* of organizeLinks returns 0 for them.
TiedSections(links, config) ==
    \E a, b \in Range(links) :
        /\ a.href # b.href
        /\ chapterInfoOf(a.href, config) # Null
        /\ chapterInfoOf(a.href, config).number = chapterInfoOf(b.href, config).number
        /\ priorityOf(a, config) = priorityOf(b, config)
        /\ localeCompare(a.text, b.text) = 0

\* C10 as stated: the same references listed in any order get the same
\* filenames from both invocations.
C10_AnyListingOrder ==
    cpc = "renamed" => \A l \in Range(cLinks) : cOtherNames[l] = cNames[l]

\* C10 amended: the same references listed in any order get the same
\* filenames from both invocations, provided no two references with different
\* hrefs share chapter, priority and display text.
C10_OrderIndependentWithoutTies ==
    (cpc = "renamed" /\ ~TiedSections(cLinks, cCfg)) =>
        \A l \in Range(cLinks) : cOtherNames[l] = cNames[l]

\* A catalog without ties was classified in two different listing orders that
\* put two references of one chapter in opposite order.
C10_Witness ==
    /\ cpc = "renamed"
    /\ ~TiedSections(cLinks, cCfg)
    /\ \E n \in DOMAIN cCatalog : Len(cCatalog[n].sections) >= 2
    /\ \E i, j \in 1..Len(cLinks) :
          /\ i < j
          /\ cLinks[i] # cLinks[j]
          /\ chapterInfoOf(cLinks[i].href, cCfg) = chapterInfoOf(cLinks[j].href, cCfg)
          /\ cOther[1] = cLinks[j]
          /\ cOther[Len(cOther)] = cLinks[i]

(***************************************************************************)
(* Classification and naming as functions of the configuration and the     *)
(* catalog                                                                 *)
(***************************************************************************)

NamingCatalogs == UNION {[1..n -> KnownLinks] : n \in 1..MaxLinks}

\* main hands MODE_CONFIGS[mode] with the mode added to the constructor; the
\* classification functions take that object as their config argument.
NamingInit ==
    /\ cpc = "loaded"
    /\ cCfg \in KnownConfigs
    /\ cLinks \in NamingCatalogs
    /\ cCatalog = <<>>
    /\ cNames = <<>>
    /\ cOther = <<>>
    /\ cOtherNames = <<>>
    /\ FetchIdle /\ ConvIdle /\ PipeIdle /\ HeadIdle /\ IndexIdle /\ CacheIdle

SpecNaming == NamingInit /\ [][Classify]_vars

IntroLink == mkLink(<<"/", "a", "/", "i", "n", "t", "r", "o">>, <<"I", "n", "t", "r", "o">>)
ZetaLink == mkLink(<<"/", "a", "/", "z", "e", "t", "a">>, <<"Z", "e", "t", "a">>)

\* The references of the listing under /a are /a/intro and /a/zeta, each once.
ExampleListing ==
    /\ \E i \in 1..Len(cLinks) : cLinks[i] = IntroLink
    /\ \E i \in 1..Len(cLinks) : cLinks[i] = ZetaLink
    /\ \A i, j \in 1..Len(cLinks) :
          (startsWith(cLinks[i].href, <<"/", "a">>) /\ cLinks[i] = cLinks[j]) => i = j

\* C12: with the chapter mapping {"/a": chapter 1} and the priority keywords
\* {"intro": 1}, the references /a/intro and /a/zeta are both of chapter 1 and
\* their filenames begin with 01-01- and 01-02-.
C12_ExampleNaming ==
    (cpc = "named" /\ cCfg \in ExampleConfigs /\ ExampleListing) =>
        /\ chapterInfoOf(IntroLink.href, cCfg).number = 1
        /\ chapterInfoOf(ZetaLink.href, cCfg).number = 1
        /\ startsWith(cNames[IntroLink], <<"0", "1", "-", "0", "1", "-">>)
        /\ startsWith(cNames[ZetaLink], <<"0", "1", "-", "0", "2", "-">>)

\* The entries of the chapter mapping whose key is a prefix of href.
keyPrefixes(href, config) ==
    {i \in 1..Len(config.chapterMapping) : startsWith(href, config.chapterMapping[i].path)}

\* The chapter of the longest key that is a prefix of href.
longestPrefixChapter(href, config) ==
    LET m == config.chapterMapping
        hits == keyPrefixes(href, config)
    IN  m[CHOOSE i \in hits : \A j \in hits : Len(m[j].path) <= Len(m[i].path)].chapter

\* The hrefs of the sections of chapter n of an organized catalog.
chapterHrefs(catalog, n) ==
    IF n \in DOMAIN catalog
    THEN {catalog[n].sections[k].href : k \in 1..Len(catalog[n].sections)}
    ELSE {}

\* C13: every reference whose href has a key of the chapter mapping as a prefix
\* is placed in the chapter of the longest such key.
C13_LongestPrefixDecides ==
    cpc = "named" =>
        \A i \in 1..Len(cLinks) :
            keyPrefixes(cLinks[i].href, cCfg) # {} =>
                cLinks[i].href \in
                    chapterHrefs(cCatalog, longestPrefixChapter(cLinks[i].href, cCfg).number)

\* C14: every reference whose href has no key of the chapter mapping as a
\* prefix is a section of chapter 99 of the catalog, that chapter is named
\* "Other", and 99 is above the number of every mapped chapter.
C14_UnmatchedGoToOther ==
    cpc = "named" =>
        \A i \in 1..Len(cLinks) :
            keyPrefixes(cLinks[i].href, cCfg) = {} =>
                /\ cLinks[i].href \in chapterHrefs(cCatalog, OtherChapter.number)
                /\ cCatalog[OtherChapter.number].info = OtherChapter
                /\ \A k \in 1..Len(cCfg.chapterMapping) :
                      cCfg.chapterMapping[k].chapter.number < OtherChapter.number

\* The keywords of the priority table that occur in the lower-cased display
\* text or href of a section.
matchingKeywords(section, config) ==
    {k \in 1..Len(config.sectionPriority) :
        \/ includes(toLowerCase(section.text), config.sectionPriority[k].keyword)
        \/ includes(toLowerCase(section.href), config.sectionPriority[k].keyword)}

\* lowerText.charCodeAt(0)
firstCharCode(section) == charCode(lowerChar(section.text[1]))

\* C15: in every chapter of a classified catalog, of two sections the earlier
\* one has the lower priority or, at equal priority, a display text that does
\* not compare greater; a section without a matching keyword never precedes
\* one with a matching keyword, and two sections without one are in the order
\* of their first characters and then of their display texts.
C15_SectionsSorted ==
    cpc = "named" =>
        \A n \in DOMAIN cCatalog :
            \A a, b \in 1..Len(cCatalog[n].sections) :
                a < b =>
                    LET x == cCatalog[n].sections[a]
                        y == cCatalog[n].sections[b]
                        mx == matchingKeywords(x, cCfg) # {}
                        my == matchingKeywords(y, cCfg) # {}
                    IN  /\ x.priority <= y.priority
                        /\ x.priority = y.priority => localeCompare(x.text, y.text) <= 0
                        /\ ~(my /\ ~mx)
                        /\ (~mx /\ ~my) =>
                              /\ firstCharCode(x) <= firstCharCode(y)
                              /\ firstCharCode(x) = firstCharCode(y) =>
                                    localeCompare(x.text, y.text) <= 0

\* A chapter of three sections was sorted whose listing had them in the
\* opposite order: one with a matching keyword, then two without one whose
\* first characters differ.
C15_Witness ==
    /\ cpc = "named"
    /\ Len(cLinks) = 3
    /\ \E n \in DOMAIN cCatalog :
          LET s == cCatalog[n].sections
          IN  /\ Len(s) = 3
              /\ matchingKeywords(s[1], cCfg) # {}
              /\ matchingKeywords(s[2], cCfg) = {}
              /\ matchingKeywords(s[3], cCfg) = {}
              /\ firstCharCode(s[2]) < firstCharCode(s[3])
              /\ cLinks[1].href = s[3].href
              /\ cLinks[2].href = s[2].href
              /\ cLinks[3].href = s[1].href

\* The lowest priority among the keywords that occur in a section.
lowestMatchingPriority(section, config) ==
    LET sp == config.sectionPriority
        hits == matchingKeywords(section, config)
    IN  sp[CHOOSE k \in hits : \A j \in hits : sp[k].priority <= sp[j].priority].priority

\* C16: the priority of every section of a classified catalog in which
\* keywords of the priority table occur (in the display text or the href,
\* compared in lower case) is the lowest priority among those keywords.
C16_LowestMatchingKeywordWins ==
    cpc = "named" =>
        \A n \in DOMAIN cCatalog :
            \A a \in 1..Len(cCatalog[n].sections) :
                LET x == cCatalog[n].sections[a]
                IN  matchingKeywords(x, cCfg) # {} =>
                        x.priority = lowestMatchingPriority(x, cCfg)

\* A section in which two keywords of different priorities occur, one of them
\* in upper case in the display text, was classified.
C16_Witness ==
    /\ cpc = "named"
    /\ \E n \in DOMAIN cCatalog :
          \E a \in 1..Len(cCatalog[n].sections) :
              LET x == cCatalog[n].sections[a]
                  sp == cCfg.sectionPriority
              IN  /\ \E j, k \in matchingKeywords(x, cCfg) : sp[j].priority # sp[k].priority
                  /\ \E k \in matchingKeywords(x, cCfg) :
                        /\ ~includes(x.text, sp[k].keyword)
                        /\ ~includes(x.href, sp[k].keyword)
                  /\ x.priority = lowestMatchingPriority(x, cCfg)

(***************************************************************************)
(* Phase 2, the batch fetcher (02-download-html.js, class HTMLDownloader)   *)
(***************************************************************************)

\* CONCURRENT_LIMIT is 20 in the source; the model runs a pool of this size.
CONCURRENT_LIMIT == 2

\* The number of successive runs of the fetch phase that are modelled.
MaxRuns == 2

\* htmlContent.length < 1000 is rejected.
MinContentLength == 1000

\* The catalogs the fetch phase is run on (react-reference-links.json).
FetchCatalogs ==
    { <<>>,
      << mkLink(<<"/", "r", "e", "f", "e", "r", "e", "n", "c", "e", "/", "r", "e", "a", "c", "t", "/", "h", "o", "o", "k", "s">>, <<"H", "o", "o", "k", "s">>) >>,
      << mkLink(<<"/", "r", "e", "f", "e", "r", "e", "n", "c", "e", "/", "r", "e", "a", "c", "t", "/", "h", "o", "o", "k", "s">>, <<"H", "o", "o", "k", "s">>),
         mkLink(<<"/", "r", "e", "f", "e", "r", "e", "n", "c", "e", "/", "r", "e", "a", "c", "t", "/", "u", "s", "e">>, <<"u", "s", "e">>),
         mkLink(<<"/", "r", "e", "f", "e", "r", "e", "n", "c", "e", "/", "r", "e", "a", "c", "t", "-", "d", "o", "m", "/", "c", "o", "m", "p", "o", "n", "e", "n", "t", "s">>, <<"C", "o", "m", "p", "o", "n", "e", "n", "t", "s">>) >>,
      << mkLink(<<"/", "r", "e", "f", "e", "r", "e", "n", "c", "e", "/", "r", "e", "a", "c", "t", "/", "u", "s", "e">>, <<"u", "s", "e">>),
         mkLink(<<"/", "r", "e", "f", "e", "r", "e", "n", "c", "e", "/", "r", "e", "a", "c", "t", "/", "u", "s", "e">>, <<"u", "s", "e">>),
         mkLink(<<"/", "r", "e", "f", "e", "r", "e", "n", "c", "e", "/", "r", "e", "a", "c", "t", "/", "h", "o", "o", "k", "s">>, <<"H", "o", "o", "k", "s">>) >>,
      << mkLink(<<"/", "r", "e", "f", "e", "r", "e", "n", "c", "e">>, <<"O", "v", "e", "r", "v", "i", "e", "w", "!">>),
         mkLink(<<"/", "l", "e", "a", "r", "n">>, <<"O", "v", "e", "r", "v", "i", "e", "w">>),
         mkLink(<<"/", "r", "e", "f", "e", "r", "e", "n", "c", "e", "/", "r", "e", "a", "c", "t", "/", "h", "o", "o", "k", "s">>, <<"H", "o", "o", "k", "s">>) >>,
      << mkLink(<<"/", "r", "e", "f", "e", "r", "e", "n", "c", "e", "/", "r", "e", "a", "c", "t", "/", "h", "o", "o", "k", "s">>, <<"H", "o", "o", "k", "s">>),
         mkLink(<<"/", "r", "e", "f", "e", "r", "e", "n", "c", "e">>, <<"O", "v", "e", "r", "v", "i", "e", "w", "!">>),
         mkLink(<<"/", "l", "e", "a", "r", "n">>, <<"O", "v", "e", "r", "v", "i", "e", "w">>) >>,
      << mkLink(<<"/", "r", "e", "f", "e", "r", "e", "n", "c", "e", "/", "r", "e", "a", "c", "t", "/", "h", "o", "o", "k", "s">>, <<"H", "o", "o", "k", "s">>),
         mkLink(<<"/", "r", "e", "f", "e", "r", "e", "n", "c", "e", "/", "r", "e", "a", "c", "t", "/", "u", "s", "e">>, <<"u", "s", "e">>),
         mkLink(<<"/", "r", "e", "f", "e", "r", "e", "n", "c", "e", "/", "r", "e", "a", "c", "t", "-", "d", "o", "m", "/", "c", "o", "m", "p", "o", "n", "e", "n", "t", "s">>, <<"C", "o", "m", "p", "o", "n", "e", "n", "t", "s">>),
         mkLink(<<"/", "r", "e", "f", "e", "r", "e", "n", "c", "e", "/", "r", "e", "a", "c", "t", "/", "l", "e", "g", "a", "c", "y", "/", "u", "s", "e">>, <<"u", "s", "e">>) >> }

\* What a URL serves: nothing in time (page.goto throws), or markup of some
\* version and length. The markup of two URLs is never the same text.
Versions == 1..2
Down == [status |-> "down", version |-> 1, length |-> 0]
PageStates ==
    {Down} \cup [status : {"ok"}, version : Versions,
                 length : {MinContentLength - 1, MinContentLength}]

\* page.content() of a URL that serves s.
htmlOf(url, s) == [url |-> url, version |-> s.version, length |-> s.length]

\* Placeholders of a task that has no markup and no record yet.
NoContent == [url |-> <<>>, version |-> 0, length |-> 0]
NoRecord == [filename |-> <<>>, url |-> <<>>, title |-> <<>>, size |-> 0, skipped |-> FALSE]

\* crypto.createHash('sha256').update(content).digest('hex'): a digest that
\* differs for different contents (no collision is assumed).
sha256(content) == <<"sha256", content.url, content.version, content.length>>

\* fs.writeFile(filepath, content)
writeFile(store, name, content) ==
    [n \in DOMAIN store \cup {name} |-> IF n = name THEN content ELSE store[n]]

\* A comparison of lengths instead of hashes.
checkExistingFileByLength(store, name, newContent) ==
    /\ name \in DOMAIN store
    /\ store[name].length = newContent.length

\* HTMLDownloader.checkExistingFile: the stored file can be read and has the
\* hash of the new content.
checkExistingFile(store, name, newContent) ==
    /\ name \in DOMAIN store
    /\ sha256(store[name]) = sha256(newContent)

\* Array.prototype.slice(from, to) read with the upper end included.
sliceInclusive(s, from, to) ==
    SubSeq(s, from + 1, IF to + 1 < Len(s) THEN to + 1 ELSE Len(s))

\* Array.prototype.slice(from, to) for 0 <= from <= to: the elements at the
\* 0-based positions from .. to-1, cut at the end of the array.
slice(s, from, to) == SubSeq(s, from + 1, IF to < Len(s) THEN to ELSE Len(s))

\* for (let i = 0; i < links.length; i += CONCURRENT_LIMIT)
\*     batches.push(links.slice(i, i + CONCURRENT_LIMIT))
RECURSIVE batchesFrom(_, _)
batchesFrom(links, i) ==
    IF i < Len(links)
    THEN <<slice(links, i, i + CONCURRENT_LIMIT)>> \o batchesFrom(links, i + CONCURRENT_LIMIT)
    ELSE <<>>

batches(links) == batchesFrom(links, 0)

\* A split into batches that leaves out the incomplete last batch.
numBatchesFullOnly(n) == n \div CONCURRENT_LIMIT

\* The batches of downloadAllPages: batch b (from 1) holds the links
\* (b-1)*CONCURRENT_LIMIT+1 .. b*CONCURRENT_LIMIT of the catalog.
numBatches(n) == (n + CONCURRENT_LIMIT - 1) \div CONCURRENT_LIMIT

\* A split into batches of twice the pool size.
batchOfDoubleSize(i) == ((i - 1) \div (2 * CONCURRENT_LIMIT)) + 1

batchOf(i) == ((i - 1) \div CONCURRENT_LIMIT) + 1

batchItems(b, n) == {i \in 1..n : batchOf(i) = b}

\* The record downloadSinglePage returns.
fetchRecord(link, filename, content, skipped) ==
    [filename |-> filename \o <<".", "h", "t", "m", "l">>, url |-> link.fullUrl, title |-> link.text,
     size |-> content.length, skipped |-> skipped]

\* Promise.all instead of Promise.allSettled: one failure loses the batch.
RECURSIVE successfulOrNone(_, _)
successfulOrNone(ts, items) ==
    IF \E i \in items : ts[i].outcome # "ok" THEN <<>>
    ELSE IF items = {} THEN <<>>
    ELSE LET i == CHOOSE x \in items : \A y \in items : x <= y
         IN  <<ts[i].record>> \o successfulOrNone(ts, items \ {i})

\* The values of a batch listed from its last task to its first.
RECURSIVE successfulReversed(_, _)
successfulReversed(ts, items) ==
    IF items = {} THEN <<>>
    ELSE LET i == CHOOSE x \in items : \A y \in items : x >= y
         IN  (IF ts[i].outcome = "ok" THEN <<ts[i].record>> ELSE <<>>)
             \o successfulReversed(ts, items \ {i})

\* processBatch: the values of the settled promises that are not null, in the
\* order of the batch.
RECURSIVE successful(_, _)
successful(ts, items) ==
    IF items = {} THEN <<>>
    ELSE LET i == CHOOSE x \in items : \A y \in items : x <= y
         IN  (IF ts[i].outcome = "ok" THEN <<ts[i].record>> ELSE <<>>)
             \o successful(ts, items \ {i})

\* A wait that ends with the first settled task (Promise.race).
anySettled(ts, items) == items = {} \/ \E i \in items : ts[i].pc = "settled"

\* await Promise.allSettled(downloadPromises): every task of the batch settled.
allSettled(ts, items) == \A i \in items : ts[i].pc = "settled"

\* organizeLinks is a function of the catalog alone: its value on the catalogs
\* of the fetch phase is computed once and looked up afterwards.
OrganizedMemo == [c \in FetchCatalogs |-> organizeLinks(c, ReferenceConfig)]

organizedLinksOf(links) ==
    IF links \in FetchCatalogs THEN OrganizedMemo[links]
    ELSE organizeLinks(links, ReferenceConfig)

FetchInit ==
    /\ fpc = "start"
    /\ run = 1
    /\ fLinks \in FetchCatalogs
    /\ thisOrganizedLinks = <<>>
    /\ site \in [{fLinks[i].fullUrl : i \in 1..Len(fLinks)}
                    -> {s \in PageStates : s.version = 1}]
    /\ siteChanged = FALSE
    /\ htmlStore = <<>>
    /\ storeAtRunStart = <<>>
    /\ tasks = <<>>
    /\ batch = 0
    /\ allResults = <<>>
    /\ delays = 0
    /\ ClassIdle /\ ConvIdle /\ PipeIdle /\ HeadIdle /\ IndexIdle /\ CacheIdle

\* loadLinksFromLatestFile, ensureDirectories, initBrowser and the split into
\* batches: no task exists yet.
LoadLinks ==
    /\ fpc = "start"
    /\ thisOrganizedLinks' = organizedLinksOf(fLinks)
    /\ tasks' = [i \in 1..Len(fLinks) |->
                    [pc |-> "idle", page |-> 0, filename |-> <<>>, content |-> NoContent,
                     outcome |-> "pending", record |-> NoRecord]]
    /\ batch' = 1
    /\ allResults' = <<>>
    /\ fpc' = "loop"
    /\ UNCHANGED <<run, fLinks, site, siteChanged, htmlStore, storeAtRunStart, delays>>
    /\ UNCHANGED nonFetchVars

\* processBatch up to its await: batch.map calls downloadSinglePage for every
\* link of the batch; each call derives its filename and starts page.goto on
\* page index % pages.length.
DispatchBatch ==
    /\ fpc = "loop"
    /\ batch <= numBatches(Len(fLinks))
    /\ tasks' = [i \in 1..Len(fLinks) |->
                    IF batchOf(i) = batch
                    THEN [tasks[i] EXCEPT
                            !.pc = "goto",
                            !.page = (i - 1 - (batch - 1) * CONCURRENT_LIMIT) % CONCURRENT_LIMIT,
                            !.filename = generateChapterSectionFilename(
                                             fLinks[i], thisOrganizedLinks, ReferenceConfig)]
                    ELSE tasks[i]]
    /\ fpc' = "awaiting"
    /\ UNCHANGED <<run, fLinks, thisOrganizedLinks, site, siteChanged, htmlStore,
                   storeAtRunStart, batch, allResults, delays>>
    /\ UNCHANGED nonFetchVars

\* A task that stores the markup before it tests its length.
NavigateWritesFirst(i) ==
    /\ tasks[i].pc = "goto"
    /\ LET s == site[fLinks[i].fullUrl]
       IN  IF s.status = "down"
           THEN /\ tasks' = [tasks EXCEPT ![i].pc = "settled", ![i].outcome = "failed"]
                /\ htmlStore' = htmlStore
           ELSE IF s.length < MinContentLength
           THEN /\ tasks' = [tasks EXCEPT ![i].pc = "settled", ![i].outcome = "failed"]
                /\ htmlStore' = writeFile(htmlStore, tasks[i].filename,
                                          htmlOf(fLinks[i].fullUrl, s))
           ELSE /\ tasks' = [tasks EXCEPT ![i].pc = "checking",
                                          ![i].content = htmlOf(fLinks[i].fullUrl, s)]
                /\ htmlStore' = htmlStore
    /\ UNCHANGED <<fpc, run, fLinks, thisOrganizedLinks, site, siteChanged,
                   storeAtRunStart, batch, allResults, delays>>
    /\ UNCHANGED nonFetchVars

\* A navigation without a timeout: a page that is down never answers.
NavigateWithoutTimeout(i) ==
    /\ tasks[i].pc = "goto"
    /\ LET s == site[fLinks[i].fullUrl]
       IN  /\ s.status # "down"
           /\ IF s.length < MinContentLength
              THEN tasks' = [tasks EXCEPT ![i].pc = "settled", ![i].outcome = "failed"]
              ELSE tasks' = [tasks EXCEPT ![i].pc = "checking",
                                          ![i].content = htmlOf(fLinks[i].fullUrl, s)]
    /\ UNCHANGED <<fpc, run, fLinks, thisOrganizedLinks, site, siteChanged, htmlStore,
                   storeAtRunStart, batch, allResults, delays>>
    /\ UNCHANGED nonFetchVars

\* page.goto, waitForFunction, the settle delay and page.content(): the
\* navigation times out (caught, null), or the markup is read; markup under
\* the floor throws (caught, null); otherwise checkExistingFile starts.
Navigate(i) ==
    /\ tasks[i].pc = "goto"
    /\ LET s == site[fLinks[i].fullUrl]
       IN  IF s.status = "down" \/ s.length < MinContentLength
           THEN tasks' = [tasks EXCEPT ![i].pc = "settled", ![i].outcome = "failed"]
           ELSE tasks' = [tasks EXCEPT ![i].pc = "checking",
                                       ![i].content = htmlOf(fLinks[i].fullUrl, s)]
    /\ UNCHANGED <<fpc, run, fLinks, thisOrganizedLinks, site, siteChanged, htmlStore,
                   storeAtRunStart, batch, allResults, delays>>
    /\ UNCHANGED nonFetchVars

\* checkExistingFile resolves: identical content returns the skipped record;
\* otherwise fs.writeFile is started.
CheckExisting(i) ==
    /\ tasks[i].pc = "checking"
    /\ IF checkExistingFile(htmlStore, tasks[i].filename, tasks[i].content)
       THEN tasks' = [tasks EXCEPT
                        ![i].pc = "settled", ![i].outcome = "ok",
                        ![i].record = fetchRecord(fLinks[i], tasks[i].filename,
                                                  tasks[i].content, TRUE)]
       ELSE tasks' = [tasks EXCEPT ![i].pc = "writing"]
    /\ UNCHANGED <<fpc, run, fLinks, thisOrganizedLinks, site, siteChanged, htmlStore,
                   storeAtRunStart, batch, allResults, delays>>
    /\ UNCHANGED nonFetchVars

\* fs.writeFile completes and the downloaded record is returned.
WriteHtml(i) ==
    /\ tasks[i].pc = "writing"
    /\ htmlStore' = writeFile(htmlStore, tasks[i].filename, tasks[i].content)
    /\ tasks' = [tasks EXCEPT
                    ![i].pc = "settled", ![i].outcome = "ok",
                    ![i].record = fetchRecord(fLinks[i], tasks[i].filename,
                                              tasks[i].content, FALSE)]
    /\ UNCHANGED <<fpc, run, fLinks, thisOrganizedLinks, site, siteChanged,
                   storeAtRunStart, batch, allResults, delays>>
    /\ UNCHANGED nonFetchVars

\* A loop body that waits after every batch, the last one included.
BatchSettledAlwaysDelays ==
    /\ fpc = "awaiting"
    /\ allSettled(tasks, batchItems(batch, Len(fLinks)))
    /\ allResults' = allResults \o successful(tasks, batchItems(batch, Len(fLinks)))
    /\ fpc' = "delay" /\ delays' = delays + 1
    /\ batch' = batch + 1
    /\ UNCHANGED <<run, fLinks, thisOrganizedLinks, site, siteChanged, htmlStore,
                   storeAtRunStart, tasks>>
    /\ UNCHANGED nonFetchVars

\* processBatch after its await, and the loop body of downloadAllPages: the
\* successful records are appended; a delay follows unless the batch was the
\* last one.
BatchSettled ==
    /\ fpc = "awaiting"
    /\ allSettled(tasks, batchItems(batch, Len(fLinks)))
    /\ allResults' = allResults \o successful(tasks, batchItems(batch, Len(fLinks)))
    /\ IF batch < numBatches(Len(fLinks))
       THEN fpc' = "delay" /\ delays' = delays + 1
       ELSE fpc' = "loop" /\ delays' = delays
    /\ batch' = batch + 1
    /\ UNCHANGED <<run, fLinks, thisOrganizedLinks, site, siteChanged, htmlStore,
                   storeAtRunStart, tasks>>
    /\ UNCHANGED nonFetchVars

\* setTimeout(resolve, DELAY_BETWEEN_BATCHES) fires.
DelayElapsed ==
    /\ fpc = "delay"
    /\ fpc' = "loop"
    /\ UNCHANGED <<run, fLinks, thisOrganizedLinks, site, siteChanged, htmlStore,
                   storeAtRunStart, tasks, batch, allResults, delays>>
    /\ UNCHANGED nonFetchVars

\* No batch is left: the summary is logged and the browser closed.
Summary ==
    /\ fpc = "loop"
    /\ batch > numBatches(Len(fLinks))
    /\ fpc' = "done"
    /\ UNCHANGED <<run, fLinks, thisOrganizedLinks, site, siteChanged, htmlStore,
                   storeAtRunStart, tasks, batch, allResults, delays>>
    /\ UNCHANGED nonFetchVars

\* Between two runs (the earlier run has ended, the later one has not loaded
\* its catalog yet) a page of the site changes.
SiteChange ==
    /\ fpc = "start"
    /\ run > 1
    /\ ~siteChanged
    /\ \E u \in DOMAIN site, s \in PageStates :
          /\ s # site[u]
          /\ site' = [site EXCEPT ![u] = s]
    /\ siteChanged' = TRUE
    /\ UNCHANGED <<fpc, run, fLinks, thisOrganizedLinks, htmlStore, storeAtRunStart,
                   tasks, batch, allResults, delays>>
    /\ UNCHANGED nonFetchVars

\* The phase is run again on the same catalog and the same store.
RunAgain ==
    /\ fpc = "done"
    /\ run < MaxRuns
    /\ run' = run + 1
    /\ fpc' = "start"
    /\ storeAtRunStart' = htmlStore
    /\ tasks' = <<>>
    /\ batch' = 0
    /\ allResults' = <<>>
    /\ delays' = 0
    /\ thisOrganizedLinks' = <<>>
    /\ UNCHANGED <<fLinks, site, siteChanged, htmlStore>>
    /\ UNCHANGED nonFetchVars

FetchNext ==
    \/ LoadLinks
    \/ DispatchBatch
    \/ \E i \in DOMAIN tasks : Navigate(i)
    \/ \E i \in DOMAIN tasks : CheckExisting(i)
    \/ \E i \in DOMAIN tasks : WriteHtml(i)
    \/ BatchSettled
    \/ DelayElapsed
    \/ Summary
    \/ SiteChange
    \/ RunAgain

SpecFetch == FetchInit /\ [][FetchNext]_vars

\* The URL of link i serves markup that passes the size floor.
fetchable(i) ==
    LET s == site[fLinks[i].fullUrl]
    IN  s.status = "ok" /\ s.length >= MinContentLength

\* The references among links i..n whose page can be fetched, in input order.
RECURSIVE fetchableRefs(_, _)
fetchableRefs(i, n) ==
    IF i > n THEN <<>>
    ELSE (IF fetchable(i) THEN <<[url |-> fLinks[i].fullUrl, title |-> fLinks[i].text]>>
          ELSE <<>>) \o fetchableRefs(i + 1, n)

recordRefs(records) ==
    [k \in 1..Len(records) |-> [url |-> records[k].url, title |-> records[k].title]]

\* The links of the batches that processBatch has returned for.
linksReturned ==
    IF batch - 1 < numBatches(Len(fLinks))
    THEN (batch - 1) * CONCURRENT_LIMIT
    ELSE Len(fLinks)

\* C1: whatever tasks fail, every batch returns the records of exactly its
\* non-failing tasks (after a batch has returned, allResults lists exactly the
\* fetchable references of the batches so far), and the run ends only after
\* every batch was processed.
C1_FailuresContained ==
    /\ (fpc \in {"loop", "delay", "done"} /\ batch >= 1) =>
          recordRefs(allResults) = fetchableRefs(1, linksReturned)
    /\ fpc = "done" => batch = numBatches(Len(fLinks)) + 1

\* A run ended in which the first task of a batch of two failed, its sibling
\* succeeded, and the task of the next batch succeeded.
C1_Witness ==
    /\ fpc = "done"
    /\ Len(fLinks) = 3
    /\ ~fetchable(1) /\ fetchable(2) /\ fetchable(3)
    /\ tasks[1].outcome = "failed"
    /\ Len(allResults) = 2

\* C2: while a task of a batch is started, every task of every earlier batch
\* has settled.
C2_BatchDrainedBeforeNext ==
    \A i, j \in DOMAIN tasks :
        (batchOf(i) < batchOf(j) /\ tasks[j].pc # "idle") => tasks[i].pc = "settled"

\* A task of the second batch is in flight.
C2_Witness ==
    \E j \in DOMAIN tasks :
        batchOf(j) = 2 /\ tasks[j].pc \in {"goto", "checking", "writing"}

\* C3: when the comparison of a successfully fetched page resolves, the task
\* returns a record with skipped = true and leaves the store alone exactly when
\* a file of its filename is stored whose hash is the hash of the fetched
\* markup; otherwise it goes on to write, and the write makes the fetched
\* markup the content of the file and returns skipped = false.
C3_SkippedIffSameHash ==
    [][\A i \in DOMAIN tasks :
         i \in DOMAIN tasks' =>
           LET name == tasks[i].filename
               same == /\ name \in DOMAIN htmlStore
                       /\ sha256(htmlStore[name]) = sha256(tasks[i].content)
           IN  /\ (tasks[i].pc = "checking" /\ tasks'[i].pc # "checking") =>
                     /\ htmlStore' = htmlStore
                     /\ IF same
                        THEN /\ tasks'[i].pc = "settled"
                             /\ tasks'[i].outcome = "ok"
                             /\ tasks'[i].record.skipped
                        ELSE tasks'[i].pc = "writing"
               /\ (tasks[i].pc = "writing" /\ tasks'[i].pc # "writing") =>
                     /\ htmlStore'[name] = tasks[i].content
                     /\ tasks'[i].pc = "settled"
                     /\ tasks'[i].outcome = "ok"
                     /\ ~tasks'[i].record.skipped
      ]_vars

\* In one run a page was skipped as identical and another was written over a
\* stored file of different content.
C3_Witness ==
    \E i, j \in DOMAIN tasks :
        /\ tasks[i].outcome = "ok" /\ tasks[i].record.skipped
        /\ tasks[j].outcome = "ok" /\ ~tasks[j].record.skipped
        /\ tasks[j].filename \in DOMAIN storeAtRunStart
        /\ storeAtRunStart[tasks[j].filename] # tasks[j].content

\* C4: a second run over the same catalog, the site unchanged since the first
\* run began, returns only records with skipped = true and leaves every file
\* of the store with the content it had after the first run.
C4_SecondRunSkipsAll ==
    (run = 2 /\ fpc = "done" /\ ~siteChanged) =>
        /\ \A k \in 1..Len(allResults) : allResults[k].skipped
        /\ htmlStore = storeAtRunStart

\* C11: in a run over a catalog every dispatched reference has a filename,
\* and two references of the catalog that differ in href or in display text
\* never have the same filename.
C11_FilenameInjective ==
    \A i, j \in DOMAIN tasks :
        (tasks[i].pc # "idle" /\ tasks[j].pc # "idle") =>
            /\ tasks[i].filename # <<>>
            /\ (fLinks[i].href # fLinks[j].href \/ fLinks[i].text # fLinks[j].text) =>
                   tasks[i].filename # tasks[j].filename

\* processBatch: failed, the number of settled promises that were rejected or
\* whose value is null.
failed(ts, items) == Cardinality({i \in items : ts[i].outcome # "ok"})

\* The failures that the calls of processBatch for batches 1..b counted.
RECURSIVE failedUpTo(_, _)
failedUpTo(ts, b) ==
    IF b = 0 THEN 0 ELSE failed(ts, batchItems(b, Len(ts))) + failedUpTo(ts, b - 1)

\* C22: in every fetch run a reference is dispatched once, by the batch it
\* belongs to, and never again; whenever processBatch has returned for some
\* batches, the records returned so far plus the failures counted so far are
\* as many as the references of those batches; and when the run has ended
\* every reference has settled as a record or as a failure, and the records
\* plus the counted failures are as many as the references of the catalog.
C22_EveryReferenceAccounted ==
    /\ [][\A i \in DOMAIN tasks :
            i \in DOMAIN tasks' =>
                /\ tasks'[i].pc = "idle" => tasks[i].pc = "idle"
                /\ tasks'[i].pc = "goto" => tasks[i].pc \in {"idle", "goto"}
                /\ (tasks[i].pc = "idle" /\ tasks'[i].pc # "idle") =>
                      tasks'[i].pc = "goto" /\ batchOf(i) = batch
                /\ tasks[i].pc = "settled" => tasks'[i] = tasks[i]
       ]_vars
    /\ []((fpc \in {"loop", "delay", "done"} /\ batch >= 1) =>
            Len(allResults) + failedUpTo(tasks, batch - 1)
                = Cardinality({i \in DOMAIN tasks : batchOf(i) < batch}))
    /\ [](fpc = "done" =>
            /\ \A i \in 1..Len(fLinks) :
                  i \in DOMAIN tasks /\ tasks[i].pc = "settled"
                      /\ tasks[i].outcome \in {"ok", "failed"}
            /\ Len(allResults) = Cardinality({i \in DOMAIN tasks : tasks[i].outcome = "ok"})
            /\ Len(allResults) + failedUpTo(tasks, batch - 1) = Len(fLinks))

\* A run over four references ended in which each of the two batches counted
\* one failure and returned one record.
C22_Witness ==
    /\ fpc = "done"
    /\ Len(fLinks) = 4
    /\ failed(tasks, batchItems(1, 4)) = 1
    /\ failed(tasks, batchItems(2, 4)) = 1
    /\ Len(allResults) = 2

\* downloadSinglePage of link i is in flight: started and not yet settled.
inFlight(i) == tasks[i].pc \in {"goto", "checking", "writing"}

\* C23: two fetch tasks that are in flight at the same time never target the
\* same raw-document file.
C23_InFlightFilenamesDistinct ==
    \A i, j \in DOMAIN tasks :
        (i # j /\ inFlight(i) /\ inFlight(j)) => tasks[i].filename # tasks[j].filename

\* C24: at any time of the fetch phase at most CONCURRENT_LIMIT tasks are in
\* flight and no two of them use the same page of the pool; a task that was
\* dispatched as item k (from 0) of its batch uses page k mod CONCURRENT_LIMIT,
\* and no batch holds more than CONCURRENT_LIMIT items.
C24_PoolBoundsTasksInFlight ==
    /\ Cardinality({i \in DOMAIN tasks : inFlight(i)}) <= CONCURRENT_LIMIT
    /\ \A i, j \in DOMAIN tasks :
          (i # j /\ inFlight(i) /\ inFlight(j)) => tasks[i].page # tasks[j].page
    /\ \A i \in DOMAIN tasks :
          tasks[i].pc # "idle" =>
              /\ tasks[i].page = (i - 1) % CONCURRENT_LIMIT
              /\ tasks[i].page \in 0..(CONCURRENT_LIMIT - 1)
    /\ \A b \in 1..Len(tasks) :
          Cardinality({i \in DOMAIN tasks : tasks[i].pc # "idle" /\ batchOf(i) = b})
              <= CONCURRENT_LIMIT

\* The second batch of a run holds a full pool of tasks in flight, one on each
\* page, after the first batch used the same pages.
C24_Witness ==
    /\ Cardinality({i \in DOMAIN tasks : inFlight(i) /\ i > CONCURRENT_LIMIT}) = CONCURRENT_LIMIT
    /\ \A p \in 0..(CONCURRENT_LIMIT - 1) :
          /\ \E i \in DOMAIN tasks : inFlight(i) /\ tasks[i].page = p
          /\ \E j \in DOMAIN tasks : tasks[j].pc = "settled" /\ tasks[j].page = p

\* The batches of a list one after the other.
RECURSIVE concatenation(_)
concatenation(bs) == IF bs = <<>> THEN <<>> ELSE Head(bs) \o concatenation(Tail(bs))

\* C31: once the catalog is loaded, the batches cut from it are contiguous
\* and their concatenation is the catalog in order; every batch but the last
\* has CONCURRENT_LIMIT items, the last has between 1 and CONCURRENT_LIMIT,
\* there are ceil(len / CONCURRENT_LIMIT) batches, and an empty catalog gives
\* no batch; the tasks dispatched for batch b are the items of the b-th slice.
C31_BatchesPartitionTheCatalog ==
    fpc # "start" =>
        LET bs == batches(fLinks)
            n == Len(fLinks)
            B == Len(bs)
        IN  /\ concatenation(bs) = fLinks
            /\ \A b \in 1..B :
                  /\ bs[b] = SubSeq(fLinks, (b - 1) * CONCURRENT_LIMIT + 1,
                                    (b - 1) * CONCURRENT_LIMIT + Len(bs[b]))
                  /\ b < B => Len(bs[b]) = CONCURRENT_LIMIT
                  /\ b = B => Len(bs[b]) \in 1..CONCURRENT_LIMIT
            /\ B * CONCURRENT_LIMIT >= n
            /\ B > 0 => (B - 1) * CONCURRENT_LIMIT < n
            /\ n = 0 => bs = <<>>
            /\ B = numBatches(n)
            /\ \A b \in 1..B :
                  /\ Cardinality(batchItems(b, n)) = Len(bs[b])
                  /\ \A i \in batchItems(b, n) :
                        fLinks[i] = bs[b][i - (b - 1) * CONCURRENT_LIMIT]
            /\ \A i \in DOMAIN tasks :
                  tasks[i].pc # "idle" =>
                      /\ batchOf(i) \in 1..B
                      /\ batchOf(i) <= batch
            /\ fpc = "awaiting" =>
                  Cardinality({i \in DOMAIN tasks : tasks[i].pc # "idle" /\ batchOf(i) = batch})
                      = Len(bs[batch])

\* A catalog of more than one batch whose last batch is incomplete is being
\* fetched: the last batch is in flight after a full one.
C31_Witness ==
    /\ fpc = "awaiting"
    /\ batch = Len(batches(fLinks))
    /\ batch > 1
    /\ Len(batches(fLinks)[batch]) < CONCURRENT_LIMIT
    /\ Len(batches(fLinks)[1]) = CONCURRENT_LIMIT

\* The number of batches of the run that have settled.
settledBatches ==
    IF fpc \in {"start"} THEN 0
    ELSE IF fpc = "awaiting" THEN batch - 1
    ELSE IF batch - 1 < numBatches(Len(fLinks)) THEN batch - 1
    ELSE numBatches(Len(fLinks))

\* C32: in the fetch phase a delay is started when a batch settles that is not
\* the last one and the next batch is dispatched only after it elapsed; no
\* delay follows the last batch, so a run of B batches has waited
\* max(B - 1, 0) times when it ends.
C32_DelayBetweenBatchesOnly ==
    /\ [][/\ (fpc = "awaiting" /\ fpc' # "awaiting") =>
                IF batch < numBatches(Len(fLinks))
                THEN fpc' = "delay" /\ delays' = delays + 1
                ELSE fpc' = "loop" /\ delays' = delays
          /\ fpc = "delay" => (fpc' \in {"delay", "loop"} /\ tasks' = tasks /\ delays' = delays)
          /\ (fpc # "awaiting" /\ fpc' = "awaiting") =>
                (fpc = "loop" /\ delays = batch - 1 /\ delays' = delays)
          /\ (fpc # "awaiting" /\ run' = run) => delays' = delays]_vars
    /\ [](fpc = "delay" =>
            /\ delays = batch - 1
            /\ batch <= numBatches(Len(fLinks))
            /\ \A i \in DOMAIN tasks : tasks[i].pc \in {"idle", "settled"})
    /\ [](fpc = "done" =>
            delays = (IF numBatches(Len(fLinks)) > 0 THEN numBatches(Len(fLinks)) - 1 ELSE 0))
    /\ [](delays = (IF settledBatches > 0
                    THEN (IF settledBatches < numBatches(Len(fLinks))
                          THEN settledBatches ELSE numBatches(Len(fLinks)) - 1)
                    ELSE 0))

\* A run of two batches has ended after one delay.
C32_Witness ==
    /\ fpc = "done"
    /\ numBatches(Len(fLinks)) = 2
    /\ delays = 1
    /\ allSettled(tasks, DOMAIN tasks)

isPrefix(a, b) == Len(a) <= Len(b) /\ SubSeq(b, 1, Len(a)) = a

\* The references of the batches before batch b whose task returned a record.
returnedBefore(b) == {i \in DOMAIN tasks : batchOf(i) < b /\ tasks[i].outcome = "ok"}

\* records lists the records of the tasks in refs by ascending reference.
inInputOrder(records, refs) ==
    /\ Len(records) = Cardinality(refs)
    /\ \A i \in refs :
          LET k == Cardinality({j \in refs : j <= i})
          IN  /\ records[k] = tasks[i].record
              /\ records[k].url = fLinks[i].fullUrl

\* C33: within a run the collection of fetch records only grows at its end,
\* and only in the step that follows the settling of every task of the
\* current batch, which adds the records of that batch at once; at any time
\* it lists the records of the settled batches by ascending reference, in
\* whatever order the tasks completed.
C33_ResultsAppendOnlyInInputOrder ==
    /\ [][(run' = run /\ fpc # "start") =>
            /\ isPrefix(allResults, allResults')
            /\ allResults' # allResults =>
                  /\ fpc = "awaiting"
                  /\ \A i \in batchItems(batch, Len(fLinks)) : tasks[i].pc = "settled"
                  /\ tasks' = tasks
                  /\ batch' = batch + 1
                  /\ Len(allResults') - Len(allResults) =
                        Cardinality({i \in batchItems(batch, Len(fLinks)) :
                                        tasks[i].outcome = "ok"})
            /\ (fpc = "awaiting" /\ fpc' # "awaiting") =>
                  inInputOrder(allResults', returnedBefore(batch + 1))]_vars
    /\ [](fpc \notin {"start"} => inInputOrder(allResults, returnedBefore(batch)))
    /\ [](fpc = "done" =>
            inInputOrder(allResults, {i \in DOMAIN tasks : tasks[i].outcome = "ok"}))

\* The records of a full first batch are in the collection while the second
\* batch is awaited: its later task has returned its record before the
\* earlier one, and the record is not in the collection yet.
C33_Witness ==
    /\ fpc = "awaiting"
    /\ batch = 2
    /\ Len(allResults) = CONCURRENT_LIMIT
    /\ Len(tasks) = 2 * CONCURRENT_LIMIT
    /\ tasks[2 * CONCURRENT_LIMIT].pc = "settled"
    /\ tasks[2 * CONCURRENT_LIMIT].outcome = "ok"
    /\ tasks[2 * CONCURRENT_LIMIT - 1].pc = "goto"

\* The file of that name is in both stores with the same content, or in
\* neither.
sameFile(a, b, name) ==
    /\ name \in DOMAIN a <=> name \in DOMAIN b
    /\ name \in DOMAIN a => a[name] = b[name]

\* C37: the step in which a fetch task fails (navigation or rendering timed
\* out, or the markup is under MinContentLength) leaves the raw-document
\* store unchanged, and the task fails before it has compared or written
\* anything; a stored raw document whose filename only failing tasks derived
\* in a run is, when the run ends, the one the run found.
C37_FailedTaskLeavesTheStore ==
    /\ [][\A i \in DOMAIN tasks :
            (i \in DOMAIN tasks' /\ tasks[i].outcome # "failed" /\ tasks'[i].outcome = "failed") =>
                /\ tasks[i].pc = "goto"
                /\ tasks'[i].pc = "settled"
                /\ LET s == site[fLinks[i].fullUrl]
                   IN  s.status = "down" \/ s.length < MinContentLength
                /\ htmlStore' = htmlStore]_vars
    /\ [][\A i \in DOMAIN tasks :
            (i \in DOMAIN tasks' /\ tasks[i].pc # "writing") =>
                \/ sameFile(htmlStore, htmlStore', tasks[i].filename)
                \/ \E j \in DOMAIN tasks :
                      tasks[j].pc = "writing" /\ tasks[j].filename = tasks[i].filename]_vars
    /\ [](\A i \in DOMAIN tasks :
            (/\ tasks[i].outcome = "failed"
             /\ \A j \in DOMAIN tasks :
                   tasks[j].filename = tasks[i].filename =>
                       tasks[j].outcome \in {"failed", "pending"} /\ tasks[j].pc # "writing") =>
                sameFile(htmlStore, storeAtRunStart, tasks[i].filename))

\* In a second run a task has failed whose raw document is stored since the
\* first run, and the run has ended with the stored file as it was.
C37_Witness ==
    /\ fpc = "done"
    /\ run = 2
    /\ \E i \in DOMAIN tasks :
          /\ tasks[i].outcome = "failed"
          /\ tasks[i].filename \in DOMAIN storeAtRunStart
          /\ tasks[i].filename \in DOMAIN htmlStore
          /\ htmlStore[tasks[i].filename] = storeAtRunStart[tasks[i].filename]

\* The steps of a run of the fetch phase: the awaited promises resolve (every
\* navigation completes or hits its timeout of 30 s) and the timers fire.
FetchProgress ==
    \/ LoadLinks
    \/ DispatchBatch
    \/ \E i \in DOMAIN tasks : Navigate(i)
    \/ \E i \in DOMAIN tasks : CheckExisting(i)
    \/ \E i \in DOMAIN tasks : WriteHtml(i)
    \/ BatchSettled
    \/ DelayElapsed
    \/ Summary

\* The fetch phase with its promises resolving.
SpecFetchLive == FetchInit /\ [][FetchNext]_vars /\ WF_vars(FetchProgress)

\* The run has reported its summary: every reference of the catalog has a
\* settled task and every batch was processed.
summaryReported ==
    /\ fpc = "done"
    /\ Len(tasks) = Len(fLinks)
    /\ \A i \in DOMAIN tasks : tasks[i].pc = "settled"
    /\ batch = numBatches(Len(fLinks)) + 1

\* C39: every run of the fetch phase on a catalog ends: from any point of a
\* run, with tasks in flight or not and however many of them failed, the run
\* goes on until every reference of the catalog has a settled task, every
\* batch is drained and the summary is reported.
C39_FetchPhaseTerminates == (fpc # "done") ~> summaryReported

\* A run of more than one batch has reported its summary with every task
\* failed.
C39_Witness ==
    /\ summaryReported
    /\ Len(tasks) > CONCURRENT_LIMIT
    /\ \A i \in DOMAIN tasks : tasks[i].outcome = "failed"
    /\ allResults = <<>>

(***************************************************************************)
(* Phase 3, the converter (03-convert-markdown.js, class MarkdownConverter) *)
(***************************************************************************)

\* The last value of the file system's clock that is modelled.
MaxClock == 3

\* A raw document that no reference of the catalog is named after.
OrphanName == <<"o", "l", "d", "-", "p", "a", "g", "e">>

\* The workspaces the convert phase is run on: the catalog, and whether the
\* raw store holds the orphan besides one raw document per reference.
ConvertWorkspaces ==
    { [links |-> <<>>, orphan |-> FALSE],
      [links |-> << mkLink(<<"/", "r", "e", "f", "e", "r", "e", "n", "c", "e", "/", "r", "e", "a", "c", "t", "/", "h", "o", "o", "k", "s">>, <<"H", "o", "o", "k", "s">>) >>, orphan |-> TRUE],
      [links |-> << mkLink(<<"/", "r", "e", "f", "e", "r", "e", "n", "c", "e", "/", "r", "e", "a", "c", "t", "/", "h", "o", "o", "k", "s">>, <<"H", "o", "o", "k", "s">>),
                    mkLink(<<"/", "r", "e", "f", "e", "r", "e", "n", "c", "e", "/", "r", "e", "a", "c", "t", "/", "u", "s", "e">>, <<"u", "s", "e">>),
                    mkLink(<<"/", "r", "e", "f", "e", "r", "e", "n", "c", "e", "/", "r", "e", "a", "c", "t", "-", "d", "o", "m", "/", "c", "o", "m", "p", "o", "n", "e", "n", "t", "s">>, <<"C", "o", "m", "p", "o", "n", "e", "n", "t", "s">>) >>,
       orphan |-> FALSE] }

\* The base filenames the fetch phase gave the raw documents of a catalog.
rawNamesOf(links) ==
    LET organizedLinks == organizeLinks(links, ReferenceConfig)
    IN  {generateChapterSectionFilename(links[i], organizedLinks, ReferenceConfig) :
            i \in 1..Len(links)}

\* A raw document: when it was written, and whether Readability finds an
\* article in it.
RawStates == [mtime : 1..2, article : BOOLEAN]

\* Placeholder of a task that has no record yet.
NoConvRecord == [filename |-> <<>>, title |-> <<>>, url |-> <<>>, path |-> <<>>, skipped |-> FALSE]

\* The record convertSingleFile returns.
convRecord(link, base, skipped) ==
    [filename |-> base \o <<".", "m", "d">>, title |-> link.text, url |-> link.fullUrl,
     path |-> link.href, skipped |-> skipped]

\* links.find(l => generateChapterSectionFilename(l, ...) === baseFilename):
\* the index of the first such link, 0 when there is none.
findLink(links, organizedLinks, config, base) ==
    LET hits == {i \in 1..Len(links) :
                    generateChapterSectionFilename(links[i], organizedLinks, config) = base}
    IN  IF hits = {} THEN 0 ELSE CHOOSE i \in hits : \A j \in hits : i <= j

\* A skip test that keeps a Document only when it is strictly newer than its
\* raw document.
shouldSkipConversionNewerOnly(raws, docs, name) ==
    /\ name \in DOMAIN docs
    /\ name \in DOMAIN raws
    /\ docs[name].mtime > raws[name].mtime

\* A skip test that keeps every Document that exists, whatever its age.
shouldSkipConversionIfExists(raws, docs, name) ==
    /\ name \in DOMAIN docs
    /\ name \in DOMAIN raws

\* MarkdownConverter.shouldSkipConversion: a failing fs.stat means no skip;
\* a raw document newer than the Document means no skip; otherwise skip.
shouldSkipConversion(raws, docs, name) ==
    /\ name \in DOMAIN docs
    /\ name \in DOMAIN raws
    /\ ~(raws[name].mtime > docs[name].mtime)

\* fs.writeFile(markdownPath, ...): the mode of an existing file is kept.
writeDoc(docs, name, now) ==
    [n \in DOMAIN docs \cup {name} |->
        IF n # name THEN docs[n]
        ELSE IF name \in DOMAIN docs
             THEN [docs[name] EXCEPT !.mtime = now, !.writes = @ + 1]
             ELSE [mtime |-> now, writes |-> 1, readable |-> TRUE]]

\* The enumerations of a set of filenames: fs.readdir returns the files of a
\* directory in no specified order.
readdir(names) ==
    {f \in [1..Cardinality(names) -> names] :
        \A i, j \in 1..Cardinality(names) : f[i] = f[j] => i = j}

\* processBatch of the converter: the non-null values in batch order.
RECURSIVE convSuccessful(_, _)
convSuccessful(ts, items) ==
    IF items = {} THEN <<>>
    ELSE LET i == CHOOSE x \in items : \A y \in items : x <= y
         IN  (IF ts[i].outcome = "ok" THEN <<ts[i].record>> ELSE <<>>)
             \o convSuccessful(ts, items \ {i})

\* The first run begins at time 2 on a workspace of an earlier pipeline run:
\* raw documents written at time 1 with an article, but for at most one that
\* was written at time 2 or has no article; Documents written at time 1, at
\* most one missing.
ConvInit ==
    /\ vpc = "start"
    /\ vrun = 1
    /\ clock = 2
    /\ \E w \in ConvertWorkspaces :
          LET names == rawNamesOf(w.links)
          IN  /\ vLinks = w.links
              /\ \E r \in [names -> RawStates] :
                    /\ Cardinality({n \in names : ~r[n].article \/ r[n].mtime = 2}) <= 1
                    /\ rawStore = IF w.orphan
                                  THEN [n \in names \cup {OrphanName} |->
                                          IF n \in names THEN r[n]
                                          ELSE [mtime |-> 1, article |-> TRUE]]
                                  ELSE r
              /\ \E have \in SUBSET names :
                    /\ Cardinality(names \ have) <= 1
                    /\ docStore = [n \in have |-> [mtime |-> 1, writes |-> 0, readable |-> TRUE]]
    /\ vOrganizedLinks = <<>>
    /\ rawChanged = FALSE
    /\ docAtRunStart = docStore
    /\ idxWrites = 0
    /\ htmlFiles = <<>>
    /\ vTasks = <<>>
    /\ vBatch = 0
    /\ vResults = <<>>
    /\ ClassIdle /\ FetchIdle /\ PipeIdle /\ HeadIdle /\ IndexIdle /\ CacheIdle

\* convertAllPages up to its loop: the catalog is loaded and organized, the
\* raw store is scanned (no raw document ends the phase with exit status 1),
\* the batches are cut; no task exists yet.
ConvLoad ==
    /\ vpc = "start"
    /\ vOrganizedLinks' = organizeLinks(vLinks, ReferenceConfig)
    /\ IF DOMAIN rawStore = {}
       THEN /\ vpc' = "failed"
            /\ UNCHANGED <<htmlFiles, vTasks, vBatch, vResults>>
       ELSE /\ htmlFiles' \in readdir(DOMAIN rawStore)
            /\ vTasks' = [i \in 1..Cardinality(DOMAIN rawStore) |->
                            [pc |-> "idle", link |-> 0, outcome |-> "pending",
                             record |-> NoConvRecord]]
            /\ vBatch' = 1
            /\ vResults' = <<>>
            /\ vpc' = "loop"
    /\ UNCHANGED <<vrun, vLinks, rawStore, rawChanged, docStore, docAtRunStart, idxWrites, clock>>
    /\ UNCHANGED nonConvVars

\* processBatch up to its await: batch.map calls convertSingleFile for every
\* file of the batch; each call looks its link up (none: null is returned)
\* and starts shouldSkipConversion.
ConvDispatch ==
    /\ vpc = "loop"
    /\ vBatch <= numBatches(Len(htmlFiles))
    /\ vTasks' = [i \in 1..Len(htmlFiles) |->
                    IF batchOf(i) # vBatch THEN vTasks[i]
                    ELSE LET l == findLink(vLinks, vOrganizedLinks, ReferenceConfig, htmlFiles[i])
                         IN  IF l = 0
                             THEN [vTasks[i] EXCEPT !.pc = "settled", !.outcome = "failed"]
                             ELSE [vTasks[i] EXCEPT !.pc = "stat", !.link = l]]
    /\ vpc' = "awaiting"
    /\ UNCHANGED <<vrun, vLinks, vOrganizedLinks, rawStore, rawChanged, docStore, docAtRunStart,
                   idxWrites, htmlFiles, vBatch, vResults, clock>>
    /\ UNCHANGED nonConvVars

\* shouldSkipConversion resolves: the existing Document is read next, or the
\* raw document.
ShouldSkip(i) ==
    /\ vTasks[i].pc = "stat"
    /\ vTasks' = [vTasks EXCEPT ![i].pc =
                    IF shouldSkipConversion(rawStore, docStore, htmlFiles[i])
                    THEN "existing" ELSE "extract"]
    /\ UNCHANGED <<vpc, vrun, vLinks, vOrganizedLinks, rawStore, rawChanged, docStore,
                   docAtRunStart, idxWrites, htmlFiles, vBatch, vResults, clock>>
    /\ UNCHANGED nonConvVars

\* The skip branch: fs.readFile of the Document; the skipped record is
\* returned, or, when the read fails, the conversion goes on.
ReadExisting(i) ==
    /\ vTasks[i].pc = "existing"
    /\ IF htmlFiles[i] \in DOMAIN docStore /\ docStore[htmlFiles[i]].readable
       THEN vTasks' = [vTasks EXCEPT
                         ![i].pc = "settled", ![i].outcome = "ok",
                         ![i].record = convRecord(vLinks[vTasks[i].link], htmlFiles[i], TRUE)]
       ELSE vTasks' = [vTasks EXCEPT ![i].pc = "extract"]
    /\ UNCHANGED <<vpc, vrun, vLinks, vOrganizedLinks, rawStore, rawChanged, docStore,
                   docAtRunStart, idxWrites, htmlFiles, vBatch, vResults, clock>>
    /\ UNCHANGED nonConvVars

\* An extraction whose failure is thrown out of the loop of convertAllPages:
\* no article ends the phase.
ExtractThrows(i) ==
    /\ vTasks[i].pc = "extract"
    /\ IF htmlFiles[i] \in DOMAIN rawStore /\ rawStore[htmlFiles[i]].article
       THEN vTasks' = [vTasks EXCEPT ![i].pc = "writing"] /\ vpc' = vpc
       ELSE /\ vTasks' = [vTasks EXCEPT ![i].pc = "settled", ![i].outcome = "failed"]
            /\ vpc' = "failed"
    /\ UNCHANGED <<vrun, vLinks, vOrganizedLinks, rawStore, rawChanged, docStore,
                   docAtRunStart, idxWrites, htmlFiles, vBatch, vResults, clock>>
    /\ UNCHANGED nonConvVars

\* fs.readFile of the raw document, Readability and Turndown: no article is a
\* failure of this file (null); otherwise fs.writeFile is started.
Extract(i) ==
    /\ vTasks[i].pc = "extract"
    /\ IF htmlFiles[i] \in DOMAIN rawStore /\ rawStore[htmlFiles[i]].article
       THEN vTasks' = [vTasks EXCEPT ![i].pc = "writing"]
       ELSE vTasks' = [vTasks EXCEPT ![i].pc = "settled", ![i].outcome = "failed"]
    /\ UNCHANGED <<vpc, vrun, vLinks, vOrganizedLinks, rawStore, rawChanged, docStore,
                   docAtRunStart, idxWrites, htmlFiles, vBatch, vResults, clock>>
    /\ UNCHANGED nonConvVars

\* fs.writeFile of the Document completes and the converted record is returned.
WriteDocument(i) ==
    /\ vTasks[i].pc = "writing"
    /\ docStore' = writeDoc(docStore, htmlFiles[i], clock)
    /\ vTasks' = [vTasks EXCEPT
                    ![i].pc = "settled", ![i].outcome = "ok",
                    ![i].record = convRecord(vLinks[vTasks[i].link], htmlFiles[i], FALSE)]
    /\ UNCHANGED <<vpc, vrun, vLinks, vOrganizedLinks, rawStore, rawChanged, docAtRunStart,
                   idxWrites, htmlFiles, vBatch, vResults, clock>>
    /\ UNCHANGED nonConvVars

\* processBatch after Promise.allSettled, and the loop body of
\* convertAllPages: the successful records are appended.
ConvBatchSettled ==
    /\ vpc = "awaiting"
    /\ \A i \in batchItems(vBatch, Len(htmlFiles)) : vTasks[i].pc = "settled"
    /\ vResults' = vResults \o convSuccessful(vTasks, batchItems(vBatch, Len(htmlFiles)))
    /\ vBatch' = vBatch + 1
    /\ vpc' = "loop"
    /\ UNCHANGED <<vrun, vLinks, vOrganizedLinks, rawStore, rawChanged, docStore, docAtRunStart,
                   idxWrites, htmlFiles, vTasks, clock>>
    /\ UNCHANGED nonConvVars

\* No batch is left: generateIndexFile and generateIndexOfContents write both
\* index files anew, and the summary is logged.
WriteIndices ==
    /\ vpc = "loop"
    /\ vBatch > numBatches(Len(htmlFiles))
    /\ idxWrites' = idxWrites + 1
    /\ vpc' = "done"
    /\ UNCHANGED <<vrun, vLinks, vOrganizedLinks, rawStore, rawChanged, docStore, docAtRunStart,
                   htmlFiles, vTasks, vBatch, vResults, clock>>
    /\ UNCHANGED nonConvVars

\* Time passes: while tasks are in flight, or between two runs.
Tick ==
    /\ vpc = "awaiting" \/ (vpc = "start" /\ vrun > 1)
    /\ clock < MaxClock
    /\ clock' = clock + 1
    /\ UNCHANGED <<vpc, vrun, vLinks, vOrganizedLinks, rawStore, rawChanged, docStore,
                   docAtRunStart, idxWrites, htmlFiles, vTasks, vBatch, vResults>>
    /\ UNCHANGED nonConvVars

\* Between two runs the fetch phase rewrites a raw document.
RawChange ==
    /\ vpc = "start"
    /\ vrun > 1
    /\ ~rawChanged
    /\ \E n \in DOMAIN rawStore, a \in BOOLEAN :
          rawStore' = [rawStore EXCEPT ![n] = [mtime |-> clock, article |-> a]]
    /\ rawChanged' = TRUE
    /\ UNCHANGED <<vpc, vrun, vLinks, vOrganizedLinks, docStore, docAtRunStart, idxWrites,
                   htmlFiles, vTasks, vBatch, vResults, clock>>
    /\ UNCHANGED nonConvVars

\* The phase is run again on the same catalog and the same stores.
ConvRunAgain ==
    /\ vpc = "done"
    /\ vrun < MaxRuns
    /\ vrun' = vrun + 1
    /\ vpc' = "start"
    /\ docAtRunStart' = docStore
    /\ vOrganizedLinks' = <<>>
    /\ htmlFiles' = <<>>
    /\ vTasks' = <<>>
    /\ vBatch' = 0
    /\ vResults' = <<>>
    /\ UNCHANGED <<vLinks, rawStore, rawChanged, docStore, idxWrites, clock>>
    /\ UNCHANGED nonConvVars

ConvNext ==
    \/ ConvLoad
    \/ ConvDispatch
    \/ \E i \in DOMAIN vTasks : ShouldSkip(i)
    \/ \E i \in DOMAIN vTasks : ReadExisting(i)
    \/ \E i \in DOMAIN vTasks : Extract(i)
    \/ \E i \in DOMAIN vTasks : WriteDocument(i)
    \/ ConvBatchSettled
    \/ WriteIndices
    \/ Tick
    \/ RawChange
    \/ ConvRunAgain

SpecConvert == ConvInit /\ [][ConvNext]_vars

\* C5: a second run of the convert phase, no raw document changed since the
\* first run began, writes no Document: every Document has the modification
\* time and the write count it had when the second run began, and no
\* Document was added.
C5_SecondRunWritesNoDocument ==
    (vrun = 2 /\ vpc = "done" /\ ~rawChanged) => docStore = docAtRunStart

\* A second run ended over unchanged raw documents, after a first run that
\* wrote one Document anew and rewrote another, and the second run returned
\* skipped records.
C5_Witness ==
    /\ vrun = 2 /\ vpc = "done" /\ ~rawChanged
    /\ \E n, m \in DOMAIN docStore :
          /\ docStore[n].writes = 1 /\ docStore[n].mtime > 1
          /\ docStore[m].writes = 1 /\ docStore[m].mtime = rawStore[m].mtime
    /\ \E k \in 1..Len(vResults) : vResults[k].skipped

\* Task i settles in this step.
settles(i) ==
    /\ i \in DOMAIN vTasks /\ i \in DOMAIN vTasks'
    /\ vTasks[i].pc # "settled" /\ vTasks'[i].pc = "settled"

\* The Document of that name is written in this step.
written(name) ==
    /\ name \in DOMAIN docStore'
    /\ name \in DOMAIN docStore => docStore'[name] # docStore[name]

\* No Document of the name exists, or the raw document is strictly newer.
staleOrMissing(name) ==
    \/ name \notin DOMAIN docStore
    \/ rawStore[name].mtime > docStore[name].mtime

\* C20 as stated: the step that settles the conversion of a raw document
\* writes the Document exactly when no Document of that filename exists or
\* the raw document is strictly newer than it; otherwise the Document is left
\* untouched and a record with skipped = true is returned.
C20_WrittenIffStaleOrMissing ==
    [][\A i \in 1..Len(htmlFiles) :
          settles(i) =>
              /\ written(htmlFiles[i]) <=> staleOrMissing(htmlFiles[i])
              /\ ~staleOrMissing(htmlFiles[i]) =>
                    /\ docStore' = docStore
                    /\ vTasks'[i].outcome = "ok" /\ vTasks'[i].record.skipped
      ]_vars

\* C20 amended: for a raw document that has a reference in the catalog, the
\* step that settles its conversion leaves the readable Document untouched
\* and returns a record with skipped = true when a Document of that filename
\* exists and is not older than the raw document; when no Document exists or
\* the raw document is strictly newer, it writes the Document (with the time
\* of the write) and returns skipped = false if the raw document yields an
\* article, and otherwise writes nothing and returns no record. For a raw
\* document without a reference nothing is written and no record is returned.
C20_ConvertibleWrittenIffStaleOrMissing ==
    [][\A i \in 1..Len(htmlFiles) :
          settles(i) =>
              IF vTasks'[i].link = 0
              THEN docStore' = docStore /\ vTasks'[i].outcome = "failed"
              ELSE IF ~staleOrMissing(htmlFiles[i])
              THEN /\ docStore' = docStore
                   /\ docStore[htmlFiles[i]].readable
                   /\ vTasks'[i].outcome = "ok" /\ vTasks'[i].record.skipped
              ELSE IF rawStore[htmlFiles[i]].article
              THEN /\ written(htmlFiles[i])
                   /\ docStore'[htmlFiles[i]].mtime = clock
                   /\ vTasks'[i].outcome = "ok" /\ ~vTasks'[i].record.skipped
              ELSE docStore' = docStore /\ vTasks'[i].outcome = "failed"
      ]_vars

\* In one run a Document as old as its raw document was skipped, a Document
\* older than its raw document was rewritten, and both conversions returned
\* their records.
C20_Witness ==
    \E i, j \in DOMAIN vTasks :
        /\ vTasks[i].outcome = "ok" /\ vTasks[i].record.skipped
        /\ docStore[htmlFiles[i]].mtime = rawStore[htmlFiles[i]].mtime
        /\ vTasks[j].outcome = "ok" /\ ~vTasks[j].record.skipped
        /\ htmlFiles[j] \in DOMAIN docAtRunStart
        /\ rawStore[htmlFiles[j]].mtime > docAtRunStart[htmlFiles[j]].mtime
        /\ docStore[htmlFiles[j]].writes = docAtRunStart[htmlFiles[j]].writes + 1

\* The steps the event loop of the convert script takes by itself: every
\* pending promise resolves and main goes on after its await.
ConvProgress ==
    \/ ConvLoad
    \/ ConvDispatch
    \/ \E i \in DOMAIN vTasks : ShouldSkip(i)
    \/ \E i \in DOMAIN vTasks : ReadExisting(i)
    \/ \E i \in DOMAIN vTasks : Extract(i)
    \/ \E i \in DOMAIN vTasks : WriteDocument(i)
    \/ ConvBatchSettled
    \/ WriteIndices

\* The convert phase with its promises resolving.
SpecConvertLive == ConvInit /\ [][ConvNext]_vars /\ WF_vars(ConvProgress)

\* The conversion of file i ended without an article: it had a reference and
\* reached Readability, and returned null.
noArticleFailure(i) ==
    /\ i \in DOMAIN vTasks
    /\ vTasks[i].pc = "settled" /\ vTasks[i].outcome = "failed" /\ vTasks[i].link # 0

\* The run ended: every conversion settled, every raw document with a
\* reference and an article has a Document not older than it, the records
\* returned are those of the conversions that did not fail, and both index
\* files were written in this run.
ranToTheEnd ==
    /\ vpc = "done"
    /\ idxWrites = vrun
    /\ \A j \in DOMAIN vTasks :
          /\ vTasks[j].pc = "settled"
          /\ (vTasks[j].link # 0 /\ rawStore[htmlFiles[j]].article) =>
                /\ vTasks[j].outcome = "ok"
                /\ htmlFiles[j] \in DOMAIN docStore
                /\ docStore[htmlFiles[j]].mtime >= rawStore[htmlFiles[j]].mtime
    /\ Len(vResults) = Cardinality({j \in DOMAIN vTasks : vTasks[j].outcome = "ok"})

\* C21: when Readability extracts no article from a raw document, the step
\* that ends that conversion marks it failed, writes no Document and touches
\* neither another conversion nor the loop of the phase; its record is never
\* among the returned ones; and the run still goes to its end: all other
\* conversions of this and of later batches settle and the index files are
\* written.
C21_NoArticleIsContained ==
    /\ [][\A i \in 1..Len(htmlFiles) :
            (/\ i \in DOMAIN vTasks /\ vTasks[i].pc = "extract"
             /\ ~rawStore[htmlFiles[i]].article
             /\ i \in DOMAIN vTasks' /\ vTasks'[i] # vTasks[i]) =>
                /\ vTasks'[i].pc = "settled" /\ vTasks'[i].outcome = "failed"
                /\ docStore' = docStore
                /\ vpc' = vpc /\ vBatch' = vBatch /\ vResults' = vResults
                /\ \A j \in DOMAIN vTasks : j # i => vTasks'[j] = vTasks[j]
       ]_vars
    /\ [](\A i \in DOMAIN vTasks :
            noArticleFailure(i) =>
                \A k \in 1..Len(vResults) :
                    vResults[k].filename # htmlFiles[i] \o <<".", "m", "d">>)
    /\ (\E i \in DOMAIN vTasks : noArticleFailure(i)) ~> ranToTheEnd

\* A run ended in which a conversion of the first batch found no article and
\* no Document of its name exists, while a raw document of the second batch
\* was converted and its Document written in that run.
C21_Witness ==
    /\ ranToTheEnd
    /\ \E i, j \in DOMAIN vTasks :
          /\ noArticleFailure(i) /\ batchOf(i) = 1
          /\ htmlFiles[i] \notin DOMAIN docStore
          /\ batchOf(j) = 2
          /\ vTasks[j].outcome = "ok" /\ ~vTasks[j].record.skipped
          /\ htmlFiles[j] \in DOMAIN docAtRunStart
          /\ docStore[htmlFiles[j]].writes = docAtRunStart[htmlFiles[j]].writes + 1

(***************************************************************************)
(* The orchestrator (run-all-phases.js) and the processes it spawns         *)
(***************************************************************************)

\* The phases of main, by number; phase p runs PhaseScripts[p].
PhaseScripts ==
    << "scripts/01-extract-links.js", "scripts/02-download-html.js",
       "scripts/03-convert-markdown.js" >>

Phases == DOMAIN PhaseScripts

\* The code of the 'close' event of a child that a signal ended (null), and
\* the code of a child that has not closed.
NullCode == -1

\* The codes a child can close with.
CloseCodes == {0, 1, 2, NullCode}

\* The child of a phase that was not spawned.
NoChild == [state |-> "none", code |-> NullCode, wrote |-> FALSE]

\* env is what the run meets: the phase whose spawn fails (0: none), whether
\* puppeteer can launch the browser, what the root page of the site is
\* (unreachable, rendered without the navigation region, rendered with it),
\* and the anchors of the navigation region. A run that meets no fatal
\* condition:
healthy(e) == e.spawnFails = 0 /\ e.browserOk /\ e.root = "nav"

\* A file of the working directory after fs.writeFile.
writePath(fs, path, content) ==
    [f \in DOMAIN fs \cup {path} |->
        IF f # path THEN fs[f]
        ELSE [writes |-> (IF path \in DOMAIN fs THEN fs[path].writes ELSE 0) + 1,
              content |-> content]]

\* Every file of old is a file of new with the same content and write count.
kept(old, new) == \A f \in DOMAIN old : f \in DOMAIN new /\ new[f] = old[f]

\* A promise that resolves as soon as the child is spawned.
runScriptNoWait(ch) ==
    IF ch.state \in {"running", "closed"} THEN "resolved"
    ELSE IF ch.state = "error" THEN "rejected"
    ELSE "pending"

\* A promise that resolves on 'close' whatever the code.
runScriptAnyCode(ch) ==
    IF ch.state = "closed" THEN "resolved"
    ELSE IF ch.state = "error" THEN "rejected"
    ELSE "pending"

\* The promise of runScript: 'close' with code 0 resolves it, 'close' with
\* another code and 'error' reject it.
runScript(ch) ==
    IF ch.state = "closed" THEN (IF ch.code = 0 THEN "resolved" ELSE "rejected")
    ELSE IF ch.state = "error" THEN "rejected"
    ELSE "pending"

\* The file an abstract child of phase p leaves behind.
ArtifactOf(p) == [dir |-> <<"scripts", "output">>, name |-> PhaseScripts[p]]

\* main of run-all-phases.js is at the head of its loop, before phase 1.
OrchStart ==
    /\ opc = "loop" /\ oPhase = 1 /\ oStarted = <<>> /\ oExit = -1 /\ oLog = <<>>
    /\ children = [p \in Phases |-> NoChild]
    /\ sScript = 0 /\ sArgv = <<>> /\ sCwd = <<>> /\ spc = "none" /\ sMode = "none" /\ sExit = -1
    /\ browser = "none" /\ parsedLinks = <<>> /\ invocations = 0

\* The orchestrator is run on children of any behaviour.
OrchInit ==
    /\ OrchStart
    /\ env \in [spawnFails : 0..Len(PhaseScripts), browserOk : {TRUE}, root : {"nav"},
                anchors : {<<>>}]
    /\ files \in {<<>>, writePath(<<>>, ArtifactOf(1), <<>>)}
    /\ filesAtClose = files
    /\ ClassIdle /\ FetchIdle /\ ConvIdle /\ HeadIdle /\ IndexIdle /\ CacheIdle

\* The head of the for loop of main: the next phase is announced and
\* runScript spawns node with its script path as the only argument ('error'
\* is emitted when the spawn fails); after the last phase the completion is
\* logged and the process ends with status 0.
MainLoop ==
    /\ opc = "loop"
    /\ IF oPhase <= Len(PhaseScripts)
       THEN /\ children' = [children EXCEPT ![oPhase] =
                              [NoChild EXCEPT !.state =
                                  IF env.spawnFails = oPhase THEN "error" ELSE "running"]]
            /\ oStarted' = Append(oStarted, oPhase)
            /\ opc' = "awaiting"
            /\ UNCHANGED <<oPhase, oExit, oLog>>
       ELSE /\ oLog' = Append(oLog, "Full pipeline completed successfully!")
            /\ oExit' = 0
            /\ opc' = "exited"
            /\ UNCHANGED <<oPhase, oStarted, children>>
    /\ UNCHANGED <<env, files, filesAtClose, scriptVars>>
    /\ UNCHANGED nonPipeVars

\* await runScript(...) returns or throws: a resolved promise moves the loop
\* to the next phase; a rejected one is caught by main, which logs the
\* failure and calls process.exit(1).
AwaitRunScript ==
    /\ opc = "awaiting"
    /\ runScript(children[oPhase]) # "pending"
    /\ IF runScript(children[oPhase]) = "resolved"
       THEN /\ oLog' = Append(oLog, "Phase completed")
            /\ oPhase' = oPhase + 1
            /\ opc' = "loop"
            /\ UNCHANGED oExit
       ELSE /\ oLog' = Append(oLog, "Pipeline failed")
            /\ oExit' = 1
            /\ opc' = "exited"
            /\ UNCHANGED oPhase
    /\ UNCHANGED <<env, oStarted, children, files, filesAtClose, scriptVars>>
    /\ UNCHANGED nonPipeVars

\* A running child writes its output.
ChildWrites(p) ==
    /\ children[p].state = "running"
    /\ ~children[p].wrote
    /\ files' = writePath(files, ArtifactOf(p), <<>>)
    /\ children' = [children EXCEPT ![p].wrote = TRUE]
    /\ UNCHANGED <<env, orchVars, filesAtClose, scriptVars>>
    /\ UNCHANGED nonPipeVars

\* A running child ends and its streams close: 'close' carries its exit
\* code, or null when a signal ended it.
ChildCloses(p) ==
    /\ children[p].state = "running"
    /\ \E code \in CloseCodes :
          children' = [children EXCEPT ![p].state = "closed", ![p].code = code]
    /\ filesAtClose' = files
    /\ UNCHANGED <<env, orchVars, files, scriptVars>>
    /\ UNCHANGED nonPipeVars

OrchNext ==
    \/ MainLoop
    \/ AwaitRunScript
    \/ \E p \in Phases : ChildWrites(p)
    \/ \E p \in Phases : ChildCloses(p)

SpecOrch == OrchInit /\ [][OrchNext]_vars

\* C6: the phases are spawned in their declared order, at most one child
\* runs at any moment, and the child of a phase is spawned only after the
\* child of the phase before it has closed.
C6_PhasesInOrderOneAtATime ==
    /\ \A k \in 1..Len(oStarted) : oStarted[k] = k
    /\ Cardinality({p \in Phases : children[p].state = "running"}) <= 1
    /\ \A p \in Phases :
          (p > 1 /\ children[p].state # "none") => children[p - 1].state = "closed"

\* The third phase runs after the first two have closed.
C6_Witness ==
    /\ children[3].state = "running"
    /\ children[1].state = "closed" /\ children[2].state = "closed"
    /\ oStarted = <<1, 2, 3>>

\* C7: once a child has closed with a code other than 0, no later phase is
\* ever spawned and the orchestrator does not go on or end with status 0;
\* when it has ended, its status is 1, the failure is logged, and every file
\* that existed when the child closed is still there unchanged.
C7_FailureHaltsAndKeepsOutputs ==
    \A p \in Phases :
        (children[p].state = "closed" /\ children[p].code # 0) =>
            /\ \A q \in Phases : q > p => children[q].state = "none"
            /\ opc \in {"awaiting", "exited"}
            /\ oExit # 0
            /\ opc = "exited" =>
                  /\ oExit = 1
                  /\ oLog # <<>> /\ oLog[Len(oLog)] = "Pipeline failed"
                  /\ kept(filesAtClose, files)

\* The second phase failed after the first had written its output, and the
\* orchestrator has ended.
C7_Witness ==
    /\ opc = "exited"
    /\ children[1].state = "closed" /\ children[1].code = 0 /\ children[1].wrote
    /\ children[2].state = "closed" /\ children[2].code # 0
    /\ children[3].state = "none"
    /\ ArtifactOf(1) \in DOMAIN files

(***************************************************************************)
(* The phase scripts as processes (main of 01-, 02-, 03-), started by the   *)
(* orchestrator or from the shell                                           *)
(***************************************************************************)

\* How many scripts are started from the shell.
MaxInvocations == 3

\* The modes of MODE_CONFIGS.
Modes == {"reference", "learn"}

\* process.argv.slice(2) of the scripts that are started from the shell.
ArgvPool ==
    { <<>>, <<"--mode", "reference">>, <<"--mode", "learn">>, <<"--mode">>,
      <<"--mode", "docs">>, <<"--help">> }

\* The directories a script is started in from the shell: the project root
\* (where the orchestrator runs) or its scripts directory.
Cwds == {<<>>, <<"scripts">>}

\* MODE_CONFIGS[mode].outputDir of script p, as path segments.
outputDir(p, mode) ==
    IF p = 2 THEN (IF mode = "reference" THEN <<"react-reference">> ELSE <<"react-learn">>)
    ELSE (IF mode = "reference" THEN <<"scripts", "react-reference">>
          ELSE <<"scripts", "react-learn">>)

\* The catalog file of script p started in cwd:
\* path.join(outputDir, outputFile / inputFile).
catalogPath(p, mode, cwd) ==
    [dir |-> cwd \o outputDir(p, mode),
     name |-> IF mode = "reference" THEN "react-reference-links.json"
              ELSE "react-learn-links.json"]

\* The raw store and the Document store of script p started in cwd.
htmlPath(p, mode, cwd) == [dir |-> cwd \o outputDir(p, mode), name |-> "html"]

markdownPath(p, mode, cwd) == [dir |-> cwd \o outputDir(p, mode), name |-> "markdown"]

\* args.indexOf(x): the first position of x, 0 when it does not occur.
indexOf(args, x) ==
    IF \E i \in 1..Len(args) : args[i] = x
    THEN CHOOSE i \in 1..Len(args) : args[i] = x /\ \A j \in 1..(i - 1) : args[j] # x
    ELSE 0

\* parseArguments / parseArgs: the exit status it ends the process with, or
\* -1 when it returns a mode.
parseExit(args) ==
    IF indexOf(args, "--help") # 0 \/ indexOf(args, "-h") # 0 THEN 0
    ELSE IF indexOf(args, "--mode") = 0 \/ indexOf(args, "--mode") = Len(args) THEN 1
    ELSE IF args[indexOf(args, "--mode") + 1] \notin Modes THEN 1
    ELSE -1

\* The mode parseArguments returns.
parsedMode(args) == args[indexOf(args, "--mode") + 1]

\* String.prototype.trim
RECURSIVE trimStart(_)
trimStart(s) ==
    IF s # <<>> /\ IsSpace(Head(s)) THEN trimStart(Tail(s)) ELSE s

RECURSIVE trimEnd(_)
trimEnd(s) ==
    IF s # <<>> /\ IsSpace(s[Len(s)]) THEN trimEnd(SubSeq(s, 1, Len(s) - 1)) ELSE s

trim(s) == trimEnd(trimStart(s))

\* A parse that tests the text of the anchor as it stands, untrimmed.
RECURSIVE parseSidebarLinksUntrimmed(_)
parseSidebarLinksUntrimmed(anchors) ==
    IF anchors = <<>> THEN <<>>
    ELSE LET a == Head(anchors)
         IN  (IF a.href # <<>> /\ a.text # <<>>
              THEN <<[href |-> a.href, title |-> a.title, text |-> trim(a.text),
                      fullUrl |-> fullUrlOf(a.href)]>>
              ELSE <<>>) \o parseSidebarLinksUntrimmed(Tail(anchors))

\* parseSidebarLinks: every anchor with a non-empty href and a non-empty
\* trimmed text becomes a link, in document order.
RECURSIVE parseSidebarLinks(_)
parseSidebarLinks(anchors) ==
    IF anchors = <<>> THEN <<>>
    ELSE LET a == Head(anchors)
             textContent == trim(a.text)
         IN  (IF a.href # <<>> /\ textContent # <<>>
              THEN <<[href |-> a.href, title |-> a.title, text |-> textContent,
                      fullUrl |-> fullUrlOf(a.href)]>>
              ELSE <<>>) \o parseSidebarLinks(Tail(anchors))

\* The anchors of the navigation region of the root page.
AnchorLists ==
    { <<>>,
      << [href |-> <<"/", "r", "e", "f", "e", "r", "e", "n", "c", "e", "/", "r", "e", "a", "c", "t", "/", "h", "o", "o", "k", "s">>, title |-> <<>>, text |-> <<" ", "H", "o", "o", "k", "s", " ">>],
         [href |-> <<>>, title |-> <<>>, text |-> <<"T", "o", "p">>],
         [href |-> <<"/", "r", "e", "f", "e", "r", "e", "n", "c", "e", "/", "r", "e", "a", "c", "t", "/", "u", "s", "e">>, title |-> <<>>, text |-> <<" ", " ">>],
         [href |-> <<"/", "r", "e", "f", "e", "r", "e", "n", "c", "e", "/", "r", "e", "a", "c", "t", "/", "h", "o", "o", "k", "s">>, title |-> <<>>, text |-> <<"H", "o", "o", "k", "s">>],
         [href |-> <<"h", "t", "t", "p", "s", ":", "/", "/", "l", "e", "g", "a", "c", "y", ".", "r", "e", "a", "c", "t", "j", "s", ".", "o", "r", "g">>, title |-> <<"L", "e", "g", "a", "c", "y">>, text |-> <<"L", "e", "g", "a", "c", "y", " ", "d", "o", "c", "s">>] >> }

\* The run starts in a clean working directory, with the orchestrator
\* (pnpm docs) or with scripts started one after another from the shell.
PipeInit ==
    /\ env \in [spawnFails : 0..Len(PhaseScripts), browserOk : BOOLEAN,
                root : {"down", "nonav", "nav"}, anchors : AnchorLists]
    /\ \/ OrchStart
       \/ /\ env.spawnFails = 0
          /\ opc = "off" /\ oPhase = 0 /\ oStarted = <<>> /\ oExit = -1 /\ oLog = <<>>
          /\ children = [p \in Phases |-> NoChild]
          /\ sScript = 0 /\ sArgv = <<>> /\ sCwd = <<>> /\ spc = "none" /\ sMode = "none" /\ sExit = -1
          /\ browser = "none" /\ parsedLinks = <<>> /\ invocations = 0
    /\ files = <<>>
    /\ filesAtClose = <<>>
    /\ ClassIdle /\ FetchIdle /\ ConvIdle /\ HeadIdle /\ IndexIdle /\ CacheIdle

\* The script ends with an exit status: process.exit(code), or the end of
\* main with nothing left to wait for. A child of the orchestrator closes
\* with the status.
exits(code, fs) ==
    /\ spc' = "exited"
    /\ sExit' = code
    /\ IF opc = "off"
       THEN UNCHANGED <<children, filesAtClose>>
       ELSE /\ children' = [children EXCEPT ![sScript].state = "closed",
                                            ![sScript].code = code]
            /\ filesAtClose' = fs

\* node loads the script of the child the orchestrator spawned:
\* spawn('node', [scriptPath]) leaves process.argv.slice(2) empty.
ScriptBoot(p) ==
    /\ children[p].state = "running"
    /\ sScript # p
    /\ sScript' = p
    /\ sArgv' = <<>>
    /\ sCwd' = <<>>
    /\ spc' = "parse"
    /\ sMode' = "none"
    /\ sExit' = -1
    /\ browser' = "none"
    /\ parsedLinks' = <<>>
    /\ UNCHANGED <<env, orchVars, children, files, filesAtClose, invocations>>
    /\ UNCHANGED nonPipeVars

\* A script is started from the shell, in some directory with some arguments.
Invoke(p, args, cwd) ==
    /\ opc = "off"
    /\ spc \in {"none", "exited"}
    /\ invocations < MaxInvocations
    /\ invocations' = invocations + 1
    /\ sScript' = p
    /\ sArgv' = args
    /\ sCwd' = cwd
    /\ spc' = "parse"
    /\ sMode' = "none"
    /\ sExit' = -1
    /\ browser' = "none"
    /\ parsedLinks' = <<>>
    /\ UNCHANGED <<env, orchVars, children, files, filesAtClose>>
    /\ UNCHANGED nonPipeVars

\* parseArguments (01) / parseArgs (02, 03): --help ends the process with
\* status 0, a missing or unknown mode with status 1; otherwise main goes on
\* with the mode.
ParseArguments ==
    /\ spc = "parse"
    /\ IF parseExit(sArgv) # -1
       THEN /\ exits(parseExit(sArgv), files)
            /\ UNCHANGED sMode
       ELSE /\ sMode' = parsedMode(sArgv)
            /\ spc' = IF sScript = 1 THEN "launch" ELSE "work"
            /\ UNCHANGED <<sExit, children, filesAtClose>>
    /\ UNCHANGED <<env, orchVars, files, sScript, sArgv, sCwd, browser, parsedLinks, invocations>>
    /\ UNCHANGED nonPipeVars

\* scrapeReactDocumentation, puppeteer.launch: a failure is rethrown (no
\* browser to close) and main ends the process with status 1.
LaunchBrowser ==
    /\ spc = "launch"
    /\ IF env.browserOk
       THEN /\ browser' = "open"
            /\ spc' = "goto"
            /\ UNCHANGED <<sExit, children, filesAtClose>>
       ELSE /\ exits(1, files)
            /\ UNCHANGED browser
    /\ UNCHANGED <<env, orchVars, files, sScript, sArgv, sCwd, sMode, parsedLinks, invocations>>
    /\ UNCHANGED nonPipeVars

\* page.goto(config.targetUrl) and the wait for rendering: a failure is
\* rethrown, the browser is closed, main ends the process with status 1.
GotoRoot ==
    /\ spc = "goto"
    /\ IF env.root = "down"
       THEN /\ browser' = "closed"
            /\ exits(1, files)
       ELSE /\ spc' = "evaluate"
            /\ UNCHANGED <<sExit, children, filesAtClose, browser>>
    /\ UNCHANGED <<env, orchVars, files, sScript, sArgv, sCwd, sMode, parsedLinks, invocations>>
    /\ UNCHANGED nonPipeVars

\* page.evaluate looks for nav[role="navigation"]: without it the error is
\* logged and scrapeReactDocumentation returns, the browser is closed, main
\* logs success and the process ends with status 0; with it the links are
\* parsed.
ExtractSidebar ==
    /\ spc = "evaluate"
    /\ IF env.root = "nonav"
       THEN /\ browser' = "closed"
            /\ exits(0, files)
            /\ UNCHANGED parsedLinks
       ELSE /\ parsedLinks' = parseSidebarLinks(env.anchors)
            /\ spc' = "write"
            /\ UNCHANGED <<sExit, children, filesAtClose, browser>>
    /\ UNCHANGED <<env, orchVars, files, sScript, sArgv, sCwd, sMode, invocations>>
    /\ UNCHANGED nonPipeVars

\* ensureOutputDir and fs.writeFile of the catalog; the browser is closed and
\* the process ends with status 0.
WriteCatalog ==
    /\ spc = "write"
    /\ files' = writePath(files, catalogPath(1, sMode, sCwd), parsedLinks)
    /\ browser' = "closed"
    /\ exits(0, files')
    /\ UNCHANGED <<env, orchVars, sScript, sArgv, sCwd, sMode, parsedLinks, invocations>>
    /\ UNCHANGED nonPipeVars

\* A load that takes a missing catalog file for an empty catalog.
loadLinksOrEmpty(fs, path) ==
    [found |-> TRUE, links |-> IF path \in DOMAIN fs THEN fs[path].content ELSE <<>>]

\* loadLinksFromLatestFile: fs.access of the catalog file fails (the error
\* is thrown), or the file is read and parsed.
loadLinksFromLatestFile(fs, path) ==
    IF path \in DOMAIN fs
    THEN [found |-> TRUE, links |-> fs[path].content]
    ELSE [found |-> FALSE, links |-> <<>>]

\* downloadAllPages / convertAllPages begin with loadLinksFromLatestFile:
\* its error is logged and rethrown (no browser to close) and main ends the
\* process with status 1; otherwise the phase goes on with the links.
LoadCatalog ==
    /\ spc = "work"
    /\ LET loaded == loadLinksFromLatestFile(files, catalogPath(sScript, sMode, sCwd))
       IN  IF loaded.found
           THEN /\ parsedLinks' = loaded.links
                /\ spc' = "loaded"
                /\ UNCHANGED <<sExit, children, filesAtClose>>
           ELSE /\ exits(1, files)
                /\ UNCHANGED parsedLinks
    /\ UNCHANGED <<env, orchVars, files, sScript, sArgv, sCwd, sMode, browser, invocations>>
    /\ UNCHANGED nonPipeVars

\* ensureDirectories and initBrowser up to puppeteer.launch
\* (02-download-html.js): a failing launch leaves this.browser null, the
\* error is rethrown (no browser to close) and main ends the process with
\* status 1.
InitBrowser ==
    /\ spc = "loaded" /\ sScript = 2
    /\ IF env.browserOk
       THEN /\ browser' = "open"
            /\ spc' = "pool"
            /\ UNCHANGED <<sExit, children, filesAtClose>>
       ELSE /\ exits(1, files)
            /\ UNCHANGED browser
    /\ UNCHANGED <<env, orchVars, files, sScript, sArgv, sCwd, sMode, parsedLinks, invocations>>
    /\ UNCHANGED nonPipeVars

\* A pool whose failure ends the process with the browser left open.
CreatePagesNoFinally ==
    /\ spc = "pool"
    /\ \E created \in BOOLEAN :
          IF created
          THEN /\ spc' = "batches"
               /\ UNCHANGED <<sExit, children, filesAtClose>>
          ELSE exits(1, files)
    /\ UNCHANGED <<env, orchVars, files, sScript, sArgv, sCwd, sMode, browser, parsedLinks,
                   invocations>>
    /\ UNCHANGED nonPipeVars

\* The rest of initBrowser: the pool of CONCURRENT_LIMIT pages is created
\* (newPage, setViewport, setUserAgent); a failure is thrown out of
\* downloadAllPages, whose finally closes the browser, and main ends the
\* process with status 1.
CreatePages ==
    /\ spc = "pool"
    /\ \E created \in BOOLEAN :
          IF created
          THEN /\ spc' = "batches"
               /\ UNCHANGED <<sExit, children, filesAtClose, browser>>
          ELSE /\ browser' = "closed"
               /\ exits(1, files)
    /\ UNCHANGED <<env, orchVars, files, sScript, sArgv, sCwd, sMode, parsedLinks, invocations>>
    /\ UNCHANGED nonPipeVars

\* The rest of downloadAllPages and of main of 02-download-html.js, as a
\* whole: the batches, in which any page can fail, and the summary; the
\* browser is closed and the process ends with status 0.
DownloadAllPages ==
    /\ spc = "batches" /\ sScript = 2
    /\ \E fetched \in {<<>>, parsedLinks} :
          files' = writePath(files, htmlPath(2, sMode, sCwd), fetched)
    /\ browser' = "closed"
    /\ exits(0, files')
    /\ UNCHANGED <<env, orchVars, sScript, sArgv, sCwd, sMode, parsedLinks, invocations>>
    /\ UNCHANGED nonPipeVars

\* The rest of convertAllPages and of main of 03-convert-markdown.js, as a
\* whole: getHTMLFiles throws without the html directory or without a raw
\* document in it and the process ends with status 1; otherwise the
\* Documents and the indices are written and it ends with status 0.
ConvertAllPages ==
    /\ spc = "loaded" /\ sScript = 3
    /\ IF \/ htmlPath(3, sMode, sCwd) \notin DOMAIN files
          \/ files[htmlPath(3, sMode, sCwd)].content = <<>>
       THEN /\ exits(1, files)
            /\ UNCHANGED files
       ELSE /\ files' = writePath(files, markdownPath(3, sMode, sCwd), files[htmlPath(3, sMode, sCwd)].content)
            /\ exits(0, files')
    /\ UNCHANGED <<env, orchVars, sScript, sArgv, sCwd, sMode, browser, parsedLinks, invocations>>
    /\ UNCHANGED nonPipeVars

PipeNext ==
    \/ MainLoop
    \/ AwaitRunScript
    \/ \E p \in Phases : ScriptBoot(p)
    \/ \E p \in Phases, args \in ArgvPool, cwd \in Cwds : Invoke(p, args, cwd)
    \/ ParseArguments
    \/ LaunchBrowser
    \/ GotoRoot
    \/ ExtractSidebar
    \/ WriteCatalog
    \/ LoadCatalog
    \/ InitBrowser
    \/ CreatePages
    \/ DownloadAllPages
    \/ ConvertAllPages

SpecPipeline == PipeInit /\ [][PipeNext]_vars

\* C8: whenever the discovery script has ended after it looked for the
\* navigation region on a rendered root page that has none, it has ended
\* with a non-zero exit status and has written no catalog file.
C8_NoNavigationFails ==
    (sScript = 1 /\ spc = "exited" /\ sMode # "none" /\ env.browserOk /\ env.root = "nonav") =>
        /\ sExit # 0
        /\ catalogPath(1, sMode, sCwd) \notin DOMAIN files

\* C9: whenever the orchestrator has ended in a run that met no fatal
\* condition (every spawn succeeds, the browser launches, the root page
\* renders with its navigation region), it has started the three phases in
\* order, logged the completion and ended with status 0.
C9_OrchestratedRunCompletes ==
    (opc = "exited" /\ healthy(env)) =>
        /\ oStarted = <<1, 2, 3>>
        /\ oLog # <<>> /\ oLog[Len(oLog)] = "Full pipeline completed successfully!"
        /\ oExit = 0

\* C18: a fetch or convert script that looks for its catalog file and does
\* not find it ends at once with a non-zero exit status, with no file written
\* and no browser launched; a script that is past the load has its catalog.
C18_MissingCatalogIsFatal ==
    /\ [](spc \in {"loaded", "pool", "batches"} =>
            catalogPath(sScript, sMode, sCwd) \in DOMAIN files)
    /\ [][(/\ spc = "work" /\ sScript \in {2, 3}
           /\ catalogPath(sScript, sMode, sCwd) \notin DOMAIN files
           /\ spc' # spc) =>
              (/\ spc' = "exited" /\ sExit' # 0
               /\ files' = files
               /\ browser' = "none")]_vars

\* The fetch script has ended with status 1 for want of its catalog file,
\* in a working directory that holds files of an earlier script.
C18_Witness ==
    /\ sScript = 2 /\ spc = "exited" /\ sExit = 1 /\ sMode # "none"
    /\ catalogPath(2, sMode, sCwd) \notin DOMAIN files
    /\ files # <<>>


\* C19: a fetch script that got as far as its batches ends with status 0
\* whatever pages failed; an orchestrator that saw the fetch phase close with
\* status 0 has started the convert phase; and a convert script that finds
\* its catalog and the raw store a fetch phase left, with whatever raw
\* documents it holds, ends with status 0.
C19_ItemFailuresDoNotStopPipeline ==
    /\ [][(sScript = 2 /\ spc = "batches" /\ spc' # spc) =>
            (spc' = "exited" /\ sExit' = 0)]_vars
    /\ []((opc = "exited" /\ children[2].state = "closed" /\ children[2].code = 0) =>
            \E k \in 1..Len(oStarted) : oStarted[k] = 3)
    /\ []((/\ sScript = 3 /\ spc = "exited" /\ sMode # "none"
           /\ catalogPath(3, sMode, sCwd) \in DOMAIN files
           /\ htmlPath(3, sMode, sCwd) \in DOMAIN files) => sExit = 0)

\* C38: a discovery or fetch script never ends with its browser open: from
\* the launch on, whatever step ends the process (the success path, a root
\* page that cannot be loaded or has no navigation region, a pool of pages
\* that cannot be created) closes the browser in the same step, and the
\* browser is closed only when the process ends.
C38_BrowserClosedBeforeExit ==
    /\ [](spc = "exited" => browser \in {"none", "closed"})
    /\ [](browser = "open" <=> (sScript \in {1, 2} /\ spc \in {"goto", "evaluate", "write", "pool", "batches"}))
    /\ [][(browser = "open" /\ browser' # "open") =>
            (browser' = "closed" /\ spc' = "exited")]_vars
    /\ [][(browser = "closed" /\ browser' # "closed") =>
            (spc = "exited" /\ spc' = "parse" /\ browser' = "none")]_vars

\* The fetch script has ended with status 1 after its browser was launched
\* and the pool of pages could not be created; the browser is closed.
C38_Witness ==
    /\ sScript = 2 /\ spc = "exited" /\ sExit = 1
    /\ browser = "closed"

\* No two entries of the list have the same href and the same display text.
noDuplicates(links) ==
    \A i, j \in 1..Len(links) :
        (links[i].href = links[j].href /\ links[i].text = links[j].text) => i = j

\* C25: the list that discovery has parsed from the navigation region, and
\* every catalog file it has written, holds no two entries with the same href
\* and the same display text.
C25_CatalogHasNoDuplicates ==
    /\ (sScript = 1 /\ spc \in {"write", "exited"}) => noDuplicates(parsedLinks)
    /\ \A m \in Modes, cwd \in Cwds :
          catalogPath(1, m, cwd) \in DOMAIN files =>
              noDuplicates(files[catalogPath(1, m, cwd)].content)

\* Anchor i of the navigation region has a non-empty href and a text that is
\* not only white space.
keptAnchor(anchors, i) ==
    /\ anchors[i].href # <<>>
    /\ \E c \in 1..Len(anchors[i].text) : ~IsSpace(anchors[i].text[c])

\* The position in the region of the k-th anchor that is kept.
nthKept(anchors, k) ==
    CHOOSE i \in 1..Len(anchors) :
        /\ keptAnchor(anchors, i)
        /\ Cardinality({j \in 1..i : keptAnchor(anchors, j)}) = k

\* C26: when discovery has parsed the navigation region, every reference it
\* emits has a non-empty href and a non-empty display text without leading or
\* trailing white space, and the references are exactly the anchors with a
\* non-empty href and a text that is not blank, in document order, each with
\* the href of its anchor and the trimmed text of its anchor.
C26_KeptAnchorsInOrder ==
    (sScript = 1 /\ spc = "write") =>
        /\ \A k \in 1..Len(parsedLinks) :
              /\ parsedLinks[k].href # <<>>
              /\ parsedLinks[k].text # <<>>
              /\ ~IsSpace(parsedLinks[k].text[1])
              /\ ~IsSpace(parsedLinks[k].text[Len(parsedLinks[k].text)])
        /\ Len(parsedLinks)
              = Cardinality({i \in 1..Len(env.anchors) : keptAnchor(env.anchors, i)})
        /\ \A k \in 1..Len(parsedLinks) :
              LET a == env.anchors[nthKept(env.anchors, k)]
              IN  /\ parsedLinks[k].href = a.href
                  /\ parsedLinks[k].title = a.title
                  /\ \E lead, trail \in 0..Len(a.text) :
                        /\ lead + trail + Len(parsedLinks[k].text) = Len(a.text)
                        /\ parsedLinks[k].text
                              = SubSeq(a.text, lead + 1, Len(a.text) - trail)

\* Discovery has parsed a region with an anchor without href and an anchor of
\* blank text, which it dropped, and an anchor whose text it trimmed.
C26_Witness ==
    /\ sScript = 1 /\ spc = "write"
    /\ \E i \in 1..Len(env.anchors) : env.anchors[i].href = <<>>
    /\ \E i \in 1..Len(env.anchors) :
          env.anchors[i].href # <<>> /\ ~keptAnchor(env.anchors, i)
    /\ \E k \in 1..Len(parsedLinks) :
          parsedLinks[k].text # env.anchors[nthKept(env.anchors, k)].text
    /\ Len(parsedLinks) >= 2


\* C27: a phase script that runs for a mode in a working directory reads what
\* its predecessors, run for that mode in that directory, wrote: the catalog
\* file of the fetch and of the convert script is the catalog file of the
\* discovery script, and the raw store of the convert script is the raw store
\* of the fetch script.
C27_PhasesShareTheirFiles ==
    (sScript \in {2, 3} /\ spc \in {"work", "loaded"} /\ sMode \in Modes) =>
        /\ catalogPath(sScript, sMode, sCwd) = catalogPath(1, sMode, sCwd)
        /\ htmlPath(3, sMode, sCwd) = htmlPath(2, sMode, sCwd)

(***************************************************************************)
(* The index of contents: header extraction and filtering                  *)
(* (03-convert-markdown.js; 04-generate-index-headers-only.js holds the    *)
(* same functions)                                                         *)
(***************************************************************************)

\* How many lines a Document of the model has at most.
MaxLines == 4

FILTER_OUT_WORDS ==
    { <<"n", "o", "t", "e">>, <<"p", "i", "t", "f", "a", "l", "l">>, <<"d", "e", "e", "p", " ", "d", "i", "v", "e">>, <<"e", "x", "p", "e", "r", "i", "m", "e", "n", "t", "a", "l", " ", "f", "e", "a", "t", "u", "r", "e">>, <<"d", "e", "p", "r", "e", "c", "a", "t", "e", "d">>,
      <<"u", "n", "d", "e", "r", " ", "c", "o", "n", "s", "t", "r", "u", "c", "t", "i", "o", "n">>, <<"w", "a", "r", "n", "i", "n", "g">>, <<"c", "a", "u", "t", "i", "o", "n">>, <<"t", "i", "p">>, <<"i", "n", "f", "o">> }

\* The longest prefix of s that holds no character c: what [^c]+ takes.
RECURSIVE runWithout(_, _)
runWithout(s, c) ==
    IF s = <<>> \/ Head(s) = c THEN <<>> ELSE <<Head(s)>> \o runWithout(Tail(s), c)

\* s.replace(/open([^c]+)close/g, '$1'), close beginning with c: from left to
\* right, every opening delimiter followed by a non-empty run without c and
\* the closing delimiter is replaced by the run.
RECURSIVE unwrap(_, _, _, _)
unwrap(s, open, c, close) ==
    IF s = <<>> THEN <<>>
    ELSE LET rest == SubSeq(s, Len(open) + 1, Len(s))
             inner == runWithout(rest, c)
             after == SubSeq(rest, Len(inner) + 1, Len(rest))
         IN  IF startsWith(s, open) /\ inner # <<>> /\ startsWith(after, close)
             THEN inner \o unwrap(SubSeq(after, Len(close) + 1, Len(after)), open, c, close)
             ELSE <<Head(s)>> \o unwrap(Tail(s), open, c, close)

\* s.replace(/\[([^\]]+)\]\([^)]+\)/g, '$1')
RECURSIVE unwrapLinks(_)
unwrapLinks(s) ==
    IF s = <<>> THEN <<>>
    ELSE LET label == runWithout(Tail(s), "]")
             after == SubSeq(s, Len(label) + 2, Len(s))
             target == runWithout(SubSeq(after, 3, Len(after)), ")")
             tail == SubSeq(after, Len(target) + 3, Len(after))
         IN  IF /\ Head(s) = "[" /\ label # <<>> /\ startsWith(after, <<"]", "(">>)
                /\ target # <<>> /\ startsWith(tail, <<")">>)
             THEN label \o unwrapLinks(Tail(tail))
             ELSE <<Head(s)>> \o unwrapLinks(Tail(s))

\* The five replacements of extractPureHeadersFromMarkdown, in their order:
\* links, code, bold, italic, strikethrough.
stripFormatting(text) ==
    unwrap(unwrap(unwrap(unwrap(unwrapLinks(text),
        <<"(backtick)">>, "(backtick)", <<"(backtick)">>),
        <<"*", "*">>, "*", <<"*", "*">>),
        <<"*">>, "*", <<"*">>),
        <<"~", "~">>, "~", <<"~", "~">>)

\* The number of # characters a line begins with.
RECURSIVE leadingHashes(_)
leadingHashes(s) ==
    IF s # <<>> /\ Head(s) = "#" THEN 1 + leadingHashes(Tail(s)) ELSE 0

\* trimmed.match(/^(#{1,6})\s+(.+)$/) and match[2].trim(): the level and the
\* text of a header line; level 0 when the line is no header.
headerMatch(line) ==
    LET trimmed == trim(line)
        level == leadingHashes(trimmed)
        afterHashes == SubSeq(trimmed, level + 1, Len(trimmed))
        text == trimStart(afterHashes)
    IN  IF level \in 1..6 /\ Len(text) < Len(afterHashes) /\ text # <<>>
        THEN [level |-> level, text |-> trim(text)]
        ELSE [level |-> 0, text |-> <<>>]

\* A filter that keeps headers of any length.
isValidHeaderAnyLength(text) ==
    LET lowerText == trim(toLowerCase(text))
    IN  lowerText \notin FILTER_OUT_WORDS

\* MarkdownConverter.isValidHeader
isValidHeader(text) ==
    LET lowerText == trim(toLowerCase(text))
    IN  IF lowerText \in FILTER_OUT_WORDS THEN FALSE
        ELSE IF Len(lowerText) < 3 THEN FALSE
        ELSE TRUE

\* MarkdownConverter.extractPureHeadersFromMarkdown on the lines of the content.
RECURSIVE extractPureHeadersFromMarkdown(_)
extractPureHeadersFromMarkdown(lines) ==
    IF lines = <<>> THEN <<>>
    ELSE LET m == headerMatch(Head(lines))
             text == stripFormatting(m.text)
         IN  (IF m.level # 0 /\ isValidHeader(text)
              THEN <<[level |-> m.level, text |-> text]>>
              ELSE <<>>)
             \o extractPureHeadersFromMarkdown(Tail(lines))

\* Lines of Documents: headers plain and formatted, a header of seven #, a
\* line of body text.
LinePool ==
    { <<"#", "#", " ", "N", "o", "t", "e">>, <<"#", "#", "#", " ", "o", "k">>, <<"#", "#", " ", "P", "i", "t", "f", "a", "l", "l">>, <<"#", " ", "U", "s", "a", "g", "e">>,
      <<"#", "#", "#", " ", "*", "*", "D", "e", "e", "p", " ", "D", "i", "v", "e", "*", "*">>,
      <<"#", "#", "#", "#", " ", "[", "(backtick)", "u", "s", "e", "(backtick)", "]">> \o <<"(", "/", "r", "e", "f", "e", "r", "e", "n", "c", "e", "/", "r", "e", "a", "c", "t", "/", "u", "s", "e", ")">>,
      <<"U", "s", "a", "g", "e", " ", "n", "o", "t", "e", "s">>,
      <<"#", "#", "#", "#", "#", "#", "#", " ", "U", "s", "a", "g", "e">>,
      <<"#", "#", " ", "*", "*", " ", "N", "o", "t", "e", " ", "*", "*">>,
      <<" ", " ", "#", " ", "~", "~", "o", "k", "~", "~", " ", "*", "G", "o", "*", " ">> }

HeadDocs == UNION {[1..n -> LinePool] : n \in 1..MaxLines}

HeadInit ==
    /\ hpc = "read"
    /\ hDoc \in HeadDocs
    /\ hToc = <<>>
    /\ ClassIdle /\ FetchIdle /\ ConvIdle /\ PipeIdle /\ IndexIdle /\ CacheIdle

\* generateIndexOfContents for one page: the headers of the Document that was
\* read are extracted and listed, each with its level.
GenerateIndexOfContents ==
    /\ hpc = "read"
    /\ hToc' = extractPureHeadersFromMarkdown(hDoc)
    /\ hpc' = "listed"
    /\ UNCHANGED hDoc
    /\ UNCHANGED nonHeadVars

SpecHeaders == HeadInit /\ [][GenerateIndexOfContents]_vars

\* The headers of a Document, each with its level and its text after the
\* inline formatting is stripped, in document order.
RECURSIVE headersOf(_)
headersOf(lines) ==
    IF lines = <<>> THEN <<>>
    ELSE LET m == headerMatch(Head(lines))
         IN  (IF m.level # 0
              THEN <<[level |-> m.level, text |-> stripFormatting(m.text)]>>
              ELSE <<>>)
             \o headersOf(Tail(lines))

\* A header text of at least 3 characters that is no meta-label in any case.
listedAsStated(h) ==
    Len(h.text) >= 3 /\ toLowerCase(h.text) \notin FILTER_OUT_WORDS

\* The same with the text taken without its surrounding whitespace.
listedTrimmed(h) ==
    Len(trim(h.text)) >= 3 /\ toLowerCase(trim(h.text)) \notin FILTER_OUT_WORDS

ExampleDoc == << <<"#", "#", " ", "N", "o", "t", "e">>, <<"#", "#", "#", " ", "o", "k">>, <<"#", "#", " ", "P", "i", "t", "f", "a", "l", "l">>, <<"#", " ", "U", "s", "a", "g", "e">> >>

\* C17 as stated: the listed headers are exactly the headers whose stripped
\* text has at least 3 characters and is no meta-label in any case, and the
\* Document with the headers Note, ok, Pitfall, Usage lists Usage alone.
C17_ListedExactlyWhenValid ==
    hpc = "listed" =>
        /\ hToc = SelectSeq(headersOf(hDoc), listedAsStated)
        /\ hDoc = ExampleDoc => hToc = <<[level |-> 1, text |-> <<"U", "s", "a", "g", "e">>]>>

\* C17 amended: the listed headers are exactly the headers whose stripped
\* text, without its surrounding whitespace, has at least 3 characters and is
\* no meta-label in any case, and the Document with the headers Note, ok,
\* Pitfall, Usage lists Usage alone.
C17_ListedExactlyWhenValidTrimmed ==
    hpc = "listed" =>
        /\ hToc = SelectSeq(headersOf(hDoc), listedTrimmed)
        /\ hDoc = ExampleDoc => hToc = <<[level |-> 1, text |-> <<"U", "s", "a", "g", "e">>]>>

\* The Document with the headers Note, ok, Pitfall, Usage was listed.
C17_Witness ==
    /\ hpc = "listed"
    /\ hDoc = ExampleDoc
    /\ Len(hToc) = 1

(***************************************************************************)
(* The two indices (03-convert-markdown.js, generateIndexFile and          *)
(* generateIndexOfContents over the records of a run)                      *)
(***************************************************************************)

\* How many raw documents a run of the model processes at most.
MaxPages == 3

\* page.excerpt.substring(0, 100)
ExcerptLimit == 100

\* What Readability and Turndown make of the page of a reference: the title
\* and the excerpt of the article (empty when it has none) and the lines of
\* the converted body.
articleOf(href) ==
    IF href = <<"/", "r", "e", "f", "e", "r", "e", "n", "c", "e", "/", "r", "e", "a", "c", "t", "/", "h", "o", "o", "k", "s">>
    THEN [title |-> <<"B", "u", "i", "l", "t", "-", "i", "n", " ", "R", "e", "a", "c", "t", " ", "H", "o", "o", "k", "s">>, excerpt |-> <<"H", "o", "o", "k", "s", " ", "l", "e", "t", " ", "y", "o", "u", " ", "u", "s", "e", " ", "R", "e", "a", "c", "t", " ", "f", "e", "a", "t", "u", "r", "e", "s", ".">>,
          body |-> << <<"#", "#", " ", "S", "t", "a", "t", "e", " ", "H", "o", "o", "k", "s">>, <<"S", "t", "a", "t", "e", " ", "l", "e", "t", "s", " ", "a", " ", "c", "o", "m", "p", "o", "n", "e", "n", "t", " ", "r", "e", "m", "e", "m", "b", "e", "r", ".">>, <<"#", "#", "#", " ", "N", "o", "t", "e">>,
                      <<"#", "#", " ", "E", "f", "f", "e", "c", "t", " ", "H", "o", "o", "k", "s">> >>]
    ELSE IF href = <<"/", "r", "e", "f", "e", "r", "e", "n", "c", "e", "/", "r", "e", "a", "c", "t", "/", "u", "s", "e">>
    THEN [title |-> <<>>, excerpt |-> <<>>,
          body |-> << <<"#", "#", " ", "R", "e", "f", "e", "r", "e", "n", "c", "e">>, <<"#", "#", "#", "#", " ", "*", "*", "P", "i", "t", "f", "a", "l", "l", "*", "*">>, <<"#", "#", "#", " ", "U", "s", "a", "g", "e">> >>]
    ELSE IF href = <<"/", "r", "e", "f", "e", "r", "e", "n", "c", "e", "/", "r", "e", "a", "c", "t", "-", "d", "o", "m", "/", "c", "o", "m", "p", "o", "n", "e", "n", "t", "s">>
    THEN [title |-> <<"R", "e", "a", "c", "t", " ", "D", "O", "M", " ", "C", "o", "m", "p", "o", "n", "e", "n", "t", "s">>, excerpt |-> <<"A", "l", "l", " ", "b", "u", "i", "l", "t", "-", "i", "n", " ", "b", "r", "o", "w", "s", "e", "r", " ", "c", "o", "m", "p", "o", "n", "e", "n", "t", "s", ".">>,
          body |-> << <<"#", "#", "#", " ", "o", "k">> >>]
    ELSE IF href = <<"/", "r", "e", "f", "e", "r", "e", "n", "c", "e", "/", "r", "e", "a", "c", "t", "-", "d", "o", "m", "/", "h", "o", "o", "k", "s">>
    THEN [title |-> <<"B", "u", "i", "l", "t", "-", "i", "n", " ", "R", "e", "a", "c", "t", " ", "D", "O", "M", " ", "H", "o", "o", "k", "s">>, excerpt |-> <<>>,
          body |-> << <<"#", "#", " ", "F", "o", "r", "m", " ", "H", "o", "o", "k", "s">>, <<"#", "#", "#", "#", "#", "#", " ", "u", "s", "e", "F", "o", "r", "m", "S", "t", "a", "t", "u", "s">> >>]
    ELSE IF href = <<"/", "r", "e", "f", "e", "r", "e", "n", "c", "e", "/", "r", "e", "a", "c", "t", "/", "c", "o", "n", "s", "t", "r", "u", "c", "t", "o", "r">>
    THEN [title |-> <<"c", "o", "n", "s", "t", "r", "u", "c", "t", "o", "r">>, excerpt |-> <<"T", "h", "e", " ", "c", "o", "n", "s", "t", "r", "u", "c", "t", "o", "r", " ", "r", "u", "n", "s", " ", "b", "e", "f", "o", "r", "e", " ", "m", "o", "u", "n", "t", ".">>,
          body |-> << <<"#", "#", " ", "P", "a", "r", "a", "m", "e", "t", "e", "r", "s">> >>]
    ELSE [title |-> <<"T", "i", "p">>, excerpt |-> <<"A", "n", " ", "o", "v", "e", "r", "v", "i", "e", "w", ".">>, body |-> << <<"S", "t", "a", "r", "t", " ", "h", "e", "r", "e", ".">> >>]

\* The references whose pages a run of the convert phase processed.
IndexLinks ==
    { mkLink(<<"/", "r", "e", "f", "e", "r", "e", "n", "c", "e", "/", "r", "e", "a", "c", "t", "/", "h", "o", "o", "k", "s">>, <<"H", "o", "o", "k", "s">>),
      mkLink(<<"/", "r", "e", "f", "e", "r", "e", "n", "c", "e", "/", "r", "e", "a", "c", "t", "/", "u", "s", "e">>, <<"u", "s", "e">>),
      mkLink(<<"/", "r", "e", "f", "e", "r", "e", "n", "c", "e", "/", "r", "e", "a", "c", "t", "-", "d", "o", "m", "/", "c", "o", "m", "p", "o", "n", "e", "n", "t", "s">>, <<"C", "o", "m", "p", "o", "n", "e", "n", "t", "s">>),
      mkLink(<<"/", "r", "e", "f", "e", "r", "e", "n", "c", "e", "/", "r", "e", "a", "c", "t", "-", "d", "o", "m", "/", "h", "o", "o", "k", "s">>, <<"H", "o", "o", "k", "s">>),
      mkLink(<<"/", "r", "e", "f", "e", "r", "e", "n", "c", "e", "/", "r", "e", "a", "c", "t", "/", "c", "o", "n", "s", "t", "r", "u", "c", "t", "o", "r">>, <<"c", "o", "n", "s", "t", "r", "u", "c", "t", "o", "r">>),
      mkLink(<<"/", "r", "e", "f", "e", "r", "e", "n", "c", "e">>, <<"O", "v", "e", "r", "v", "i", "e", "w">>) }

\* The catalogs of the runs: up to MaxPages different references, in the
\* order in which the raw documents were listed.
IndexCatalogs ==
    {c \in UNION {[1..n -> IndexLinks] : n \in 1..MaxPages} :
        \A i, j \in 1..Len(c) : c[i] = c[j] => i = j}

\* article.title || link.text
titleOf(link) ==
    IF articleOf(link.href).title # <<>> THEN articleOf(link.href).title ELSE link.text

\* createMarkdownDocument: the metadata block with the title and the excerpt,
\* the title as a header of level 1, the body, the footer. Of the lines of
\* the frame only the title line begins with #.
createMarkdownDocument(link) ==
    [title |-> titleOf(link),
     excerpt |-> articleOf(link.href).excerpt,
     lines |-> << <<"-", "-", "-">>, <<"#", " ">> \o titleOf(link) >> \o articleOf(link.href).body
               \o << <<"-", "-", "-">> >>]

\* The record convertSingleFile returns for a Document it wrote (skipped
\* false) or kept (skipped true).
pageRecord(link, base, skipped) ==
    [filename |-> base \o <<".", "m", "d">>,
     title |-> IF skipped THEN link.text ELSE titleOf(link),
     excerpt |-> IF skipped THEN <<>> ELSE articleOf(link.href).excerpt,
     url |-> link.fullUrl, path |-> link.href, skipped |-> skipped]

\* String.prototype.toUpperCase for one character.
upperChar(c) == IF charCode(c) \in 97..122 THEN Ascii[charCode(c) - 32 - 31] ELSE c

\* s.charAt(0).toUpperCase() + s.slice(1)
capitalize(s) == IF s = <<>> THEN <<>> ELSE <<upperChar(Head(s))>> \o Tail(s)

\* The order of Array.prototype.sort without a comparator: strings compared
\* by their UTF-16 code units.
RECURSIVE lessCodeUnits(_, _)
lessCodeUnits(a, b) ==
    IF b = <<>> THEN FALSE
    ELSE IF a = <<>> THEN TRUE
    ELSE IF Head(a) # Head(b) THEN charCode(Head(a)) < charCode(Head(b))
    ELSE lessCodeUnits(Tail(a), Tail(b))

\* Object.keys(categories).sort()
RECURSIVE sortKeys(_)
sortKeys(keys) ==
    IF keys = {} THEN <<>>
    ELSE LET k == CHOOSE x \in keys : \A y \in keys : y # x => lessCodeUnits(x, y)
         IN  <<k>> \o sortKeys(keys \ {k})

\* The names that a plain object ({}) answers without having them as own
\* properties: categories[name] is truthy for them before any page is pushed.
ObjectPrototypeKeys ==
    { <<"c", "o", "n", "s", "t", "r", "u", "c", "t", "o", "r">>, <<"_", "_", "p", "r", "o", "t", "o", "_", "_">>, <<"h", "a", "s", "O", "w", "n", "P", "r", "o", "p", "e", "r", "t", "y">>, <<"i", "s", "P", "r", "o", "t", "o", "t", "y", "p", "e", "O", "f">>,
      <<"p", "r", "o", "p", "e", "r", "t", "y", "I", "s", "E", "n", "u", "m", "e", "r", "a", "b", "l", "e">>, <<"t", "o", "L", "o", "c", "a", "l", "e", "S", "t", "r", "i", "n", "g">>, <<"t", "o", "S", "t", "r", "i", "n", "g">>, <<"v", "a", "l", "u", "e", "O", "f">> }

\* generateIndexFile: pathParts.length > 2 ? pathParts[2] : 'Other'
categoryOf(page) ==
    LET parts == pathParts(page.path)
    IN  IF Len(parts) > 2 THEN parts[3] ELSE <<"O", "t", "h", "e", "r">>

\* The line of a page in INDEX.md: title, filename, and the first
\* ExcerptLimit characters of the excerpt of the record when it has one.
indexEntry(page) ==
    [title |-> page.title, filename |-> page.filename,
     excerpt |-> IF page.excerpt = <<>> THEN <<>>
                 ELSE SubSeq(page.excerpt, 1,
                             IF Len(page.excerpt) < ExcerptLimit THEN Len(page.excerpt)
                             ELSE ExcerptLimit)]

\* generateIndexFile: the pages are pushed to categories[category], an array
\* made when categories[category] is falsy; categories.constructor and the
\* like are truthy and have no push, which throws. The keys are sorted and
\* every category is written with its capitalized name and its pages in the
\* order of the records.
generateIndexFile(pages) ==
    LET cats == [k \in 1..Len(pages) |-> categoryOf(pages[k])]
        keys == {cats[k] : k \in 1..Len(pages)}
        ofCategory(c) == SelectSeq(pages, LAMBDA p : categoryOf(p) = c)
        sorted == sortKeys(keys)
    IN  IF keys \cap ObjectPrototypeKeys # {}
        THEN [threw |-> TRUE, categories |-> <<>>]
        ELSE [threw |-> FALSE,
              categories |->
                  [n \in 1..Len(sorted) |->
                      [category |-> sorted[n],
                       heading |-> capitalize(sorted[n]),
                       entries |-> [e \in 1..Len(ofCategory(sorted[n])) |->
                                       indexEntry(ofCategory(sorted[n])[e])]]]]

\* Pages left in the order of the records.
sortPagesNot(pages) == pages

\* validPages.sort((a, b) => a.filename.localeCompare(b.filename)): stable.
RECURSIVE insertPage(_, _)
insertPage(sorted, x) ==
    IF sorted = <<>> THEN <<x>>
    ELSE IF localeCompare(Head(sorted).filename, x.filename) > 0 THEN <<x>> \o sorted
    ELSE <<Head(sorted)>> \o insertPage(Tail(sorted), x)

RECURSIVE sortPages(_)
sortPages(pages) ==
    IF pages = <<>> THEN <<>>
    ELSE insertPage(sortPages(SubSeq(pages, 1, Len(pages) - 1)), pages[Len(pages)])

\* The section of a page in the index of contents: its title, file and path,
\* the number of its headers, and every header with the width of its indent,
\* '  '.repeat(header.level - 1).
contentsSection(page, headers) ==
    [title |-> page.title, filename |-> page.filename, path |-> page.path,
     headers |-> Len(headers),
     items |-> [h \in 1..Len(headers) |->
                   [indent |-> 2 * (headers[h].level - 1), text |-> headers[h].text]]]

\* The loop of generateIndexOfContents over the sorted pages: a Document that
\* cannot be read is skipped (the error is caught), a Document without
\* headers has no section.
RECURSIVE contentsSections(_, _)
contentsSections(pages, docs) ==
    IF pages = <<>> THEN <<>>
    ELSE LET page == Head(pages)
             headers == IF page.filename \in DOMAIN docs
                        THEN extractPureHeadersFromMarkdown(docs[page.filename].lines)
                        ELSE <<>>
         IN  (IF Len(headers) > 0 THEN <<contentsSection(page, headers)>> ELSE <<>>)
             \o contentsSections(Tail(pages), docs)

\* totalHeaders += headers.length
RECURSIVE sumHeaders(_)
sumHeaders(sections) ==
    IF sections = <<>> THEN 0 ELSE Head(sections).headers + sumHeaders(Tail(sections))

generateIndexOfContents(pages, docs) ==
    LET validPages == sortPages(pages)
        sections == contentsSections(validPages, docs)
    IN  [sections |-> sections, totalPages |-> Len(validPages),
         totalHeaders |-> sumHeaders(sections)]

\* convertAllPages after its loop, on a catalog all of whose pages were
\* processed: the records are those of the conversions, each Document kept
\* (skipped) or written in this run, and the Documents are in markdownDir.
IndexInit ==
    /\ ipc = "results"
    /\ \E c \in IndexCatalogs \cup {<<>>} :
          LET organizedLinks == organizeLinks(c, ReferenceConfig)
              base(k) == generateChapterSectionFilename(c[k], organizedLinks, ReferenceConfig)
          IN  /\ \E sk \in [1..Len(c) -> BOOLEAN] :
                    iPages = [k \in 1..Len(c) |-> pageRecord(c[k], base(k), sk[k])]
              /\ iDocs = [f \in {base(k) \o <<".", "m", "d">> : k \in 1..Len(c)} |->
                            createMarkdownDocument(
                                c[CHOOSE k \in 1..Len(c) : base(k) \o <<".", "m", "d">> = f])]
    /\ iIndex = <<>>
    /\ iContents = <<>>
    /\ iPure = <<>>
    /\ ClassIdle /\ FetchIdle /\ ConvIdle /\ PipeIdle /\ HeadIdle /\ CacheIdle

\* await this.generateIndexFile(allResults): INDEX.md is written, or the
\* error is thrown out of convertAllPages and main ends with status 1.
GenerateIndexFile ==
    /\ ipc = "results"
    /\ LET r == generateIndexFile(iPages)
       IN  IF r.threw
           THEN ipc' = "failed" /\ iIndex' = iIndex
           ELSE ipc' = "indexed" /\ iIndex' = r.categories
    /\ UNCHANGED <<iPages, iDocs, iContents, iPure>>
    /\ UNCHANGED nonIndexVars

\* await this.generateIndexOfContents(allResults): the index of contents is
\* written.
GenerateIndexOfContentsFile ==
    /\ ipc = "indexed"
    /\ iContents' = generateIndexOfContents(iPages, iDocs)
    /\ ipc' = "done"
    /\ UNCHANGED <<iPages, iDocs, iIndex, iPure>>
    /\ UNCHANGED nonIndexVars

\* The standalone generator of the index of contents
\* (04-generate-index-headers-only.js), started where its MARKDOWN_DIR is the
\* markdown directory the convert phase wrote.
OUTPUT_FILE == <<"0", "0", "-", "0", "-", "i", "n", "d", "e", "x", "-", "o", "f", "-", "c", "o", "n", "t", "e", "n", "t", "s", ".", "m", "d">>

INDEX_FILE == <<"I", "N", "D", "E", "X", ".", "m", "d">>

endsWith(s, e) == Len(e) <= Len(s) /\ SubSeq(s, Len(s) - Len(e) + 1, Len(s)) = e

\* The lines of INDEX.md: the title, the lines of the preamble, and per
\* category its header followed by its entries.
indexFileLines(categories) ==
    << <<"#", " ", "R", "e", "a", "c", "t", " ", "R", "e", "f", "e", "r", "e", "n", "c", "e", " ", "D", "o", "c", "u", "m", "e", "n", "t", "a", "t", "i", "o", "n", " ", "-", " ", "M", "a", "r", "k", "d", "o", "w", "n", " ", "C", "o", "l", "l", "e", "c", "t", "i", "o", "n">>,
       <<"*", "*", "T", "o", "t", "a", "l", " ", "P", "a", "g", "e", "s", ":", "*", "*">>,
       <<"#", "#", " ", "T", "a", "b", "l", "e", " ", "o", "f", " ", "C", "o", "n", "t", "e", "n", "t", "s">> >>
    \o [n \in 1..Len(categories) |-> <<"#", "#", "#", " ">> \o categories[n].heading]

\* The files of the markdown directory after the convert phase: the
\* Documents, INDEX.md once generateIndexFile has written it, and the index
\* of contents once generateIndexOfContents has written it.
markdownDirFiles ==
    DOMAIN iDocs
        \cup (IF ipc \in {"indexed", "done"} THEN {INDEX_FILE} ELSE {})
        \cup (IF ipc = "done" THEN {OUTPUT_FILE} ELSE {})

linesOfFile(f) == IF f = INDEX_FILE THEN indexFileLines(iIndex) ELSE iDocs[f].lines

\* getMarkdownFiles: files.filter(f => f.endsWith('.md') && f !== OUTPUT_FILE).sort()
getMarkdownFiles(listing) ==
    sortKeys({f \in listing : endsWith(f, <<".", "m", "d">>) /\ f # OUTPUT_FILE})

\* The loop of generatePureHeadersIndex: totalHeaders adds up the headers
\* extracted from every file of the list.
RECURSIVE totalHeadersOf(_)
totalHeadersOf(markdownFiles) ==
    IF markdownFiles = <<>> THEN 0
    ELSE Len(extractPureHeadersFromMarkdown(linesOfFile(Head(markdownFiles))))
         + totalHeadersOf(Tail(markdownFiles))

\* main of 04-generate-index-headers-only.js after a run of the convert
\* phase: without a markdown file getMarkdownFiles throws and the script
\* ends with status 1; otherwise every file of the list is scanned and the
\* statistics are written.
GeneratePureHeadersIndex ==
    /\ ipc \in {"done", "failed"}
    /\ iPure = <<>>
    /\ LET markdownFiles == getMarkdownFiles(markdownDirFiles)
       IN  iPure' = IF markdownFiles = <<>>
                    THEN [ended |-> "exit1", files |-> <<>>, totalPages |-> 0, totalHeaders |-> 0]
                    ELSE [ended |-> "ok", files |-> markdownFiles,
                          totalPages |-> Len(markdownFiles),
                          totalHeaders |-> totalHeadersOf(markdownFiles)]
    /\ UNCHANGED <<ipc, iPages, iDocs, iIndex, iContents>>
    /\ UNCHANGED nonIndexVars

IndexNext == GenerateIndexFile \/ GenerateIndexOfContentsFile \/ GeneratePureHeadersIndex

SpecIndex == IndexInit /\ [][IndexNext]_vars

\* The places of INDEX.md, category and line, that list the file.
placesOf(filename) ==
    {<<n, e>> \in (1..Len(iIndex)) \X (1..MaxPages) :
        e <= Len(iIndex[n].entries) /\ iIndex[n].entries[e].filename = filename}

\* The third segment of the path, or Other when it has fewer than three.
thirdSegmentOrOther(path) ==
    IF Len(pathParts(path)) >= 3 THEN pathParts(path)[3] ELSE <<"O", "t", "h", "e", "r">>

\* C28: after the loop of the convert phase INDEX.md is written, and in it
\* every processed Document is listed exactly once, under the category that
\* is the third segment of its path, or Other for a shorter path, with the
\* title and the excerpt of the Document; the categories follow each other in
\* ascending order of their names.
C28_FlatIndexListsEveryDocument ==
    /\ ipc # "failed"
    /\ ipc \in {"indexed", "done"} =>
          /\ \A k \in 1..Len(iPages) :
                /\ Cardinality(placesOf(iPages[k].filename)) = 1
                /\ \A pl \in placesOf(iPages[k].filename) :
                      /\ iIndex[pl[1]].category = thirdSegmentOrOther(iPages[k].path)
                      /\ iIndex[pl[1]].entries[pl[2]].title = iDocs[iPages[k].filename].title
                      /\ iIndex[pl[1]].entries[pl[2]].excerpt
                            = iDocs[iPages[k].filename].excerpt
          /\ \A n \in 1..(Len(iIndex) - 1) :
                lessCodeUnits(iIndex[n].category, iIndex[n + 1].category)

\* The chapters of the references of the processed pages.
chaptersOf(pages) ==
    {chapterInfoOf(pages[k].path, ReferenceConfig) : k \in 1..Len(pages)}

\* C29: in a run over a catalog of 3 references that lie in 2 chapters, all
\* pages processed, there are 3 Documents, both indices are written, INDEX.md
\* lists exactly 2 categories, and the index of contents has exactly 3
\* sections, each with the number of the headers it lists.
C29_ThreePagesTwoChapters ==
    (/\ Len(iPages) = 3
     /\ Null \notin chaptersOf(iPages)
     /\ Cardinality(chaptersOf(iPages)) = 2) =>
        /\ Cardinality(DOMAIN iDocs) = 3
        /\ ipc # "failed"
        /\ ipc \in {"indexed", "done"} => Len(iIndex) = 2
        /\ ipc = "done" =>
              /\ Len(iContents.sections) = 3
              /\ \A n \in 1..Len(iContents.sections) :
                    iContents.sections[n].headers = Len(iContents.sections[n].items)

\* The number of headers the sections list.
RECURSIVE listedHeaders(_)
listedHeaders(sections) ==
    IF sections = <<>> THEN 0 ELSE Len(Head(sections).items) + listedHeaders(Tail(sections))

\* The retained headers of a Document in source order: those whose stripped
\* and trimmed text has at least 3 characters and is no meta-label.
retainedHeaders(filename) == SelectSeq(headersOf(iDocs[filename].lines), listedTrimmed)

\* C30: the index of contents has one section for every processed Document
\* with a retained header and none for the others; the sections follow each
\* other in ascending order of filename; a section lists the retained headers
\* of its Document in source order, each of level 1 to 6 and indented by two
\* spaces for every level above the first; the header count of a section is
\* the number of headers it lists, and the total is the sum of these counts.
C30_ContentsOrderedAndCounted ==
    ipc = "done" =>
        LET sections == iContents.sections
        IN  /\ \A n, m \in 1..Len(sections) :
                  n < m => lessCodeUnits(sections[n].filename, sections[m].filename)
            /\ {sections[n].filename : n \in 1..Len(sections)}
                  = {iPages[k].filename : k \in 1..Len(iPages)}
                       \ {f \in DOMAIN iDocs : retainedHeaders(f) = <<>>}
            /\ \A n \in 1..Len(sections) :
                  LET retained == retainedHeaders(sections[n].filename)
                  IN  /\ Len(sections[n].items) = Len(retained)
                      /\ \A h \in 1..Len(retained) :
                            /\ sections[n].items[h].text = retained[h].text
                            /\ retained[h].level \in 1..6
                            /\ sections[n].items[h].indent = 2 * (retained[h].level - 1)
                      /\ sections[n].headers = Len(sections[n].items)
            /\ iContents.totalHeaders = listedHeaders(sections)
            /\ iContents.totalPages = Len(iPages)

\* The index of contents was written for three pages whose records were not
\* in filename order: one Document has no retained header and no section, one
\* lists a header of level 6, and one left a meta-label out.
C30_Witness ==
    /\ ipc = "done"
    /\ Len(iPages) = 3
    /\ lessCodeUnits(iPages[2].filename, iPages[1].filename)
    /\ Len(iContents.sections) = 2
    /\ \E n \in 1..2, h \in 1..MaxLines :
          h <= Len(iContents.sections[n].items) /\ iContents.sections[n].items[h].indent = 10
    /\ \E n \in 1..2 :
          Len(iContents.sections[n].items)
              < Len(headersOf(iDocs[iContents.sections[n].filename].lines))
    /\ iContents.totalHeaders >= 4

\* content.split(/\s+/).length for the text of lines joined by line breaks:
\* one more than the number of maximal runs of whitespace.
isWhitespace(c) == c \in {" ", "\n"}

RECURSIVE joinLines(_)
joinLines(lines) ==
    IF lines = <<>> THEN <<>>
    ELSE IF Len(lines) = 1 THEN Head(lines)
    ELSE Head(lines) \o <<"\n">> \o joinLines(Tail(lines))

splitLength(text) ==
    1 + Cardinality({i \in 1..Len(text) :
                        isWhitespace(text[i]) /\ (i = 1 \/ ~isWhitespace(text[i - 1]))})

\* The wordCount of the record convertSingleFile returns: of the whole
\* Document as stored for a skipped page, of the converted body for a page
\* converted in this run.
wordCount(page, docs) ==
    IF page.skipped
    THEN splitLength(joinLines(docs[page.filename].lines))
    ELSE splitLength(joinLines(articleOf(page.path).body))

\* validPages.reduce((sum, page) => sum + page.wordCount, 0)
RECURSIVE totalWordCount(_, _)
totalWordCount(pages, docs) ==
    IF pages = <<>> THEN 0
    ELSE wordCount(Head(pages), docs) + totalWordCount(Tail(pages), docs)

\* The records of the same pages had every Document been converted in the run.
asConverted(pages) ==
    [k \in 1..Len(pages) |->
        pageRecord(CHOOSE l \in IndexLinks : l.href = pages[k].path,
                   SubSeq(pages[k].filename, 1, Len(pages[k].filename) - 3), FALSE)]

\* C35: the flat category index and the total word count of the table of
\* contents written by a run are those of a run over the same Documents in
\* which every Document was converted: a page skipped as up to date has the
\* same title and excerpt in the index and adds the same word count.
C35_IndicesSameForSkippedAndConverted ==
    ipc = "done" =>
        /\ iIndex = generateIndexFile(asConverted(iPages)).categories
        /\ totalWordCount(iPages, iDocs) = totalWordCount(asConverted(iPages), iDocs)

\* C36: the files the standalone generator of the index of contents scans,
\* and the total page count it reports, are exactly the Documents of the
\* markdown directory: neither the index of contents nor INDEX.md is among
\* them.
C36_StandaloneCoversTheDocuments ==
    (iPure # <<>> /\ iPure.ended = "ok") =>
        /\ Range(iPure.files) = DOMAIN iDocs
        /\ iPure.totalPages = Cardinality(DOMAIN iDocs)
        /\ OUTPUT_FILE \notin Range(iPure.files)
        /\ INDEX_FILE \notin Range(iPure.files)

(***************************************************************************)
(* One reference through the fetch and the convert phase, round after      *)
(* round, on one file system (02-download-html.js, 03-convert-markdown.js) *)
(***************************************************************************)

\* The number of successive rounds of the two phases that are modelled.
MaxRounds == 3

\* The reference of the catalog and the filename both phases derive for it.
CacheLink == mkLink(<<"/", "r", "e", "f", "e", "r", "e", "n", "c", "e", "/", "r", "e", "a", "c", "t", "/", "h", "o", "o", "k", "s">>, <<"H", "o", "o", "k", "s">>)

CacheName ==
    generateChapterSectionFilename(CacheLink, organizeLinks(<<CacheLink>>, ReferenceConfig),
                                   ReferenceConfig)

\* What the URL can serve: markup above the size floor, from which
\* Readability extracts an article or not.
CachePages ==
    [status : {"ok"}, version : 1..MaxRounds, length : {MinContentLength}, article : BOOLEAN]

\* The files of a directory; a directory that does not exist has none.
dirOf(fs, path) == IF path \in DOMAIN fs THEN fs[path] ELSE <<>>

\* The directory path holds the files of store (fs.mkdir recursive, fs.writeFile).
putDir(fs, path, store) ==
    [d \in DOMAIN fs \cup {path} |-> IF d = path THEN store ELSE fs[d]]

\* A raw document as the file system keeps it: the markup and the time of
\* the write.
rawFile(content, article, now) ==
    [url |-> content.url, version |-> content.version, length |-> content.length,
     article |-> article, mtime |-> now]

\* A phase has not run, or ended with the status 1 before its loop, or ran
\* its loop, in which the reference failed or returned a record.
NotRun == [ended |-> "none", skipped |-> FALSE]
Exit1 == [ended |-> "exit1", skipped |-> FALSE]
ItemFailed == [ended |-> "failed", skipped |-> FALSE]
Returned(skipped) == [ended |-> "ok", skipped |-> skipped]

\* The discovery phase has written the catalog, started in kCwd[1]; the
\* fetch and convert scripts will be started in kCwd[2] and kCwd[3].
CacheInit ==
    /\ kpc = "fetch"
    /\ kRound = 1
    /\ kCwd \in [1..3 -> Cwds]
    /\ kPage \in {p \in CachePages : p.version = 1}
    /\ kChanged = FALSE
    /\ kFiles = putDir(<<>>, catalogPath(1, "reference", kCwd[1]), [content |-> <<CacheLink>>])
    /\ kClock = 1
    /\ kFetched = NotRun
    /\ kConverted = NotRun
    /\ ClassIdle /\ FetchIdle /\ ConvIdle /\ PipeIdle /\ HeadIdle /\ IndexIdle

\* Before the fetch phase of a later round the page changes upstream.
UpstreamChange ==
    /\ kpc = "fetch"
    /\ kRound > 1
    /\ ~kChanged
    /\ \E p \in CachePages : p.version = kRound /\ kPage' = p
    /\ kChanged' = TRUE
    /\ UNCHANGED <<kpc, kRound, kCwd, kFiles, kClock, kFetched, kConverted>>
    /\ UNCHANGED nonCacheVars

\* main of 02-download-html.js --mode reference in kCwd[2]: a missing
\* catalog ends it with status 1; otherwise the directories are made and
\* downloadSinglePage compares the markup with the stored raw document and
\* skips it or writes it.
FetchPhase ==
    /\ kpc = "fetch"
    /\ LET loaded == loadLinksFromLatestFile(kFiles, catalogPath(2, "reference", kCwd[2]))
           dir == htmlPath(2, "reference", kCwd[2])
           store == dirOf(kFiles, dir)
           content == htmlOf(CacheLink.fullUrl, kPage)
       IN  IF ~loaded.found
           THEN kFetched' = Exit1 /\ kFiles' = kFiles
           ELSE IF checkExistingFile(store, CacheName, content)
           THEN kFetched' = Returned(TRUE) /\ kFiles' = putDir(kFiles, dir, store)
           ELSE /\ kFetched' = Returned(FALSE)
                /\ kFiles' = putDir(kFiles, dir,
                                    writeFile(store, CacheName,
                                              rawFile(content, kPage.article, kClock)))
    /\ kpc' = "convert"
    /\ kClock' = kClock + 1
    /\ UNCHANGED <<kRound, kCwd, kPage, kChanged, kConverted>>
    /\ UNCHANGED nonCacheVars

\* main of 03-convert-markdown.js --mode reference in kCwd[3]: a missing
\* catalog or an html directory without a raw document ends it with status
\* 1; otherwise convertSingleFile skips the raw document, or converts it and
\* writes the Document, or fails on it.
ConvertPhase ==
    /\ kpc = "convert"
    /\ LET loaded == loadLinksFromLatestFile(kFiles, catalogPath(3, "reference", kCwd[3]))
           raws == dirOf(kFiles, htmlPath(3, "reference", kCwd[3]))
           dir == markdownPath(3, "reference", kCwd[3])
           docs == dirOf(kFiles, dir)
       IN  IF ~loaded.found \/ DOMAIN raws = {}
           THEN kConverted' = Exit1 /\ kFiles' = kFiles
           ELSE IF shouldSkipConversion(raws, docs, CacheName) /\ docs[CacheName].readable
           THEN kConverted' = Returned(TRUE) /\ kFiles' = putDir(kFiles, dir, docs)
           ELSE IF raws[CacheName].article
           THEN /\ kConverted' = Returned(FALSE)
                /\ kFiles' = putDir(kFiles, dir, writeDoc(docs, CacheName, kClock))
           ELSE kConverted' = ItemFailed /\ kFiles' = putDir(kFiles, dir, docs)
    /\ kpc' = "end"
    /\ kClock' = kClock + 1
    /\ UNCHANGED <<kRound, kCwd, kPage, kChanged, kFetched>>
    /\ UNCHANGED nonCacheVars

\* The two phases are run again, in the same directories.
NextRound ==
    /\ kpc = "end"
    /\ kRound < MaxRounds
    /\ kRound' = kRound + 1
    /\ kpc' = "fetch"
    /\ kChanged' = FALSE
    /\ kFetched' = NotRun
    /\ kConverted' = NotRun
    /\ UNCHANGED <<kCwd, kPage, kFiles, kClock>>
    /\ UNCHANGED nonCacheVars

CacheNext == UpstreamChange \/ FetchPhase \/ ConvertPhase \/ NextRound

SpecCaches == CacheInit /\ [][CacheNext]_vars

\* The raw document of the reference in the store the fetch script writes,
\* and the Document in the store the convert script writes.
rawOfFetch == dirOf(kFiles, htmlPath(2, "reference", kCwd[2]))
docsOfConvert == dirOf(kFiles, markdownPath(3, "reference", kCwd[3]))

\* The Document exists and is not older than the raw document the fetch
\* phase keeps.
documentUpToDate ==
    /\ CacheName \in DOMAIN docsOfConvert
    /\ CacheName \in DOMAIN rawOfFetch
    /\ docsOfConvert[CacheName].mtime >= rawOfFetch[CacheName].mtime

\* What the claim asks of a step of the fetch phase or of the convert phase.
propagates ==
    /\ (kpc = "fetch" /\ kpc' = "convert" /\ kRound > 1 /\ kChanged) =>
          /\ kFetched' = Returned(FALSE)
          /\ CacheName \in DOMAIN rawOfFetch'
          /\ rawOfFetch'[CacheName].version = kPage.version
          /\ rawOfFetch'[CacheName].mtime = kClock
    /\ (kpc = "convert" /\ kpc' = "end" /\ kRound > 1 /\ kChanged) =>
          /\ kConverted' = Returned(FALSE)
          /\ CacheName \in DOMAIN docsOfConvert'
          /\ docsOfConvert'[CacheName].mtime = kClock
    /\ (kpc = "fetch" /\ kpc' = "convert" /\ kRound > 1 /\ ~kChanged /\ documentUpToDate) =>
          /\ kFetched' = Returned(TRUE)
          /\ rawOfFetch' = rawOfFetch
    /\ (kpc = "convert" /\ kpc' = "end" /\ kRound > 1 /\ ~kChanged /\ documentUpToDate) =>
          /\ kConverted' = Returned(TRUE)
          /\ docsOfConvert' = docsOfConvert

\* C34: from the second round on, when the page changed since the last run,
\* the fetch phase rewrites the raw document and returns skipped=false and
\* the following convert phase rewrites the Document and returns
\* skipped=false; when the page did not change and the Document is up to
\* date, the fetch phase returns skipped=true and writes nothing and the
\* following convert phase returns skipped=true and writes nothing.
C34_ChangesPropagateThroughBothCaches == [][propagates]_vars

====
